---- MODULE Spec2Model ----
(***************************************************************************)
(* Rep-detection and feedback-gating engine of the coach frontend          *)
(* (CameraFeed: processPoseMetrics, speakTexts; utils/ruleValidator:       *)
(* applyExerciseRules; config/coachConfig).                                *)
(*                                                                         *)
(* Units.  Times are milliseconds (Date.now()).  Vertical positions are    *)
(* fixed-point: one pixel is PxScale units, so that the mean of up to six  *)
(* integer pixel rows and the 35% / 10% thresholds are exact integers.     *)
(* Confidence scores are percent (0.6 is 60).  Angles arrive in hundredths *)
(* of a degree and are rounded to tenths by toFixed(1).                    *)
(***************************************************************************)
EXTENDS Integers, Sequences, FiniteSets, TLC

(***************************************************************************)
(* coachConfig                                                             *)
(***************************************************************************)
patienceMs == 1500
perIssueCooldownMs == 8000
allowImmediateForNewIssue == TRUE
maxRepeatsPerIssue == 3
goodFormResetMs == 5000
globalSoftRequestMs == 2000
praiseCooldownMs == 10000
ttsBackoffOn429Ms == 8000
maxConcurrentTts == 1
repMinAmplitudePx == 24
repMinIntervalMs == 1000
\* repMinConfidence: 0.6, in percent
repMinConfidence == 60

(***************************************************************************)
(* Literals of CameraFeed                                                  *)
(***************************************************************************)
calibrateFrames == 40
\* smoothingWindow keeps 6 raw rows, hipHistoryRef keeps 20 smoothed rows
smoothingCap == 6
hipHistoryCap == 20
\* startDetectionLoop(detector, 150)
detectIntervalMs == 150
\* "Debounce identical batches briefly"
debounceMs == 1500
\* depthThreshold = baseline + 0.35 * (kneeY - baseline), in percent
depthFraction == 35
\* upThreshold = baseline + 0.1 * (kneeY - baseline), in percent
upFraction == 10

PxScale == 60 * 20

(***************************************************************************)
(* Bounds of the model                                                     *)
(***************************************************************************)
\* Date.now() when the component mounts (any epoch time far above the
\* configured windows behaves alike)
StartTs == 100000
\* pose frames processed after calibration in the rep-counter scenarios
MaxRepFrames == 7
\* pose frames processed after calibration in the feedback-gate scenarios
MaxGateFrames == 8
\* pose frames processed after calibration with one rule failing throughout
MaxPersistFrames == 6
\* pose frames processed after calibration in the issue-priority scenarios
MaxPriorityFrames == 3
\* calls of speakTexts in the speech scenarios
MaxSpeakEvents == 3

(***************************************************************************)
(* Generic helpers                                                         *)
(***************************************************************************)
Null == << >>
Some(v) == << v >>
Val(o) == o[1]

EmptyMap == [x \in {} |-> 0]
Has(m, k) == k \in DOMAIN m
\* map.get(k) || d
GetOr(m, k, d) == IF k \in DOMAIN m /\ m[k] # 0 THEN m[k] ELSE d
Put(m, k, v) == [x \in (DOMAIN m) \cup {k} |-> IF x = k THEN v ELSE m[x]]

Max2(a, b) == IF a >= b THEN a ELSE b
Min2(a, b) == IF a <= b THEN a ELSE b
Abs(a) == IF a >= 0 THEN a ELSE 0 - a

RECURSIVE SumSeq(_)
SumSeq(s) == IF s = << >> THEN 0 ELSE Head(s) + SumSeq(Tail(s))

RECURSIVE MaxSeq(_)
MaxSeq(s) == IF Len(s) = 1 THEN s[1] ELSE Max2(Head(s), MaxSeq(Tail(s)))

RECURSIVE MinSeq(_)
MinSeq(s) == IF Len(s) = 1 THEN s[1] ELSE Min2(Head(s), MinSeq(Tail(s)))

\* faulty variant: nothing is ever shifted out
PushUncapped(s, v, cap) == Append(s, v)

\* push(v) followed by shift() when the array is longer than cap
PushCapped(s, v, cap) ==
    LET t == Append(s, v) IN IF Len(t) > cap THEN Tail(t) ELSE t

\* [...a].sort((x, y) => x - y): a consistent comparator, so every engine
\* returns the ascending order
RECURSIVE InsertAsc(_, _)
InsertAsc(s, v) ==
    IF s = << >> THEN << v >>
    ELSE IF v < Head(s) THEN << v >> \o s
    ELSE << Head(s) >> \o InsertAsc(Tail(s), v)

RECURSIVE SortAsc(_)
SortAsc(s) == IF s = << >> THEN << >> ELSE InsertAsc(SortAsc(Tail(s)), Head(s))

\* faulty variant: the middle sample as collected, unsorted
MiddleSample(samples) == samples[(Len(samples) \div 2) + 1]

\* sorted[Math.floor(sorted.length / 2)]
Median(samples) == SortAsc(samples)[(Len(samples) \div 2) + 1]

\* The torso angle is Math.abs(...) of an angle, so it is never negative;
\* -1 stands for NaN, which is what the arithmetic yields when the shoulder
\* keypoint is undefined.  Every comparison with NaN is false.
NaN == 0 - 1

\* Number(x.toFixed(1)): hundredths of a degree to tenths, half up
ToFixed1(h) == IF h = NaN THEN NaN ELSE (h + 5) \div 10

(***************************************************************************)
(* Rule evaluator (utils/ruleValidator.ts)                                 *)
(*   metrics bag : [hipY, kneeY (PxScale units), torsoAngleDeg, kneeAngle  *)
(*                  (tenths), confidence (percent)]                        *)
(*   rule        : [id, type, param, severity]; severity "none" stands for *)
(*                 an absent severity field; param is min_ratio in percent *)
(*                 or max_deg / min_deg in tenths                          *)
(*   spec        : [minConf, rules, messages]; messages maps               *)
(*                 <<rule id, severity>> to a text                         *)
(***************************************************************************)
\* faulty variant: the distance is divided by the knee row, not by itself
RatioOfKnee(hipY, kneeY) == (100 * Abs(kneeY - hipY)) \div Max2(PxScale, kneeY)

\* delta === 0 ? 0 : Math.abs(hipY - kneeY) / Math.max(1, delta), in percent
\* (the quotient is at most 1; below one pixel it is delta itself)
RatioPct(hipY, kneeY) ==
    LET delta == Abs(kneeY - hipY) IN
    IF delta = 0 THEN 0
    ELSE IF delta >= PxScale THEN 100
    ELSE (100 * delta) \div PxScale

KnownRuleTypes == {"ratio", "max", "min"}

RuleOk(r, m) ==
    CASE r.type = "ratio" -> RatioPct(m.hipY, m.kneeY) >= r.param
      [] r.type = "max" -> m.torsoAngleDeg # NaN /\ m.torsoAngleDeg <= r.param
      [] r.type = "min" -> m.kneeAngle >= r.param
      [] OTHER -> TRUE

DefaultFailMessage(r) ==
    CASE r.type = "ratio" -> "Depth insufficient"
      [] r.type = "max" -> "Value exceeds max"
      [] r.type = "min" -> "Value below min"
      [] OTHER -> "unknown_rule_skipped"

\* faulty variant: the configured severity is reported even when the rule is met
SeverityIgnoringOk(r, ok) == IF r.severity = "none" THEN "warn" ELSE r.severity

\* ok ? "pass" : (r.severity ?? "warn")
RuleSeverity(r, ok) ==
    IF ok THEN "pass" ELSE IF r.severity = "none" THEN "warn" ELSE r.severity

\* spec.messages?.[r.id]?.[severity] ?? (ok ? "ok" : default)
RuleMessage(r, ok, spec) ==
    LET sev == RuleSeverity(r, ok) IN
    IF r.type \notin KnownRuleTypes THEN "unknown_rule_skipped"
    ELSE IF << r.id, sev >> \in DOMAIN spec.messages THEN spec.messages[<< r.id, sev >>]
    ELSE IF ok THEN "ok" ELSE DefaultFailMessage(r)

\* faulty variant: a rule of a type that is not known is reported as not met
StrictRuleResult(r, m, spec) ==
    LET ok == r.type \in KnownRuleTypes /\ RuleOk(r, m)
    IN [ruleId |-> r.id, ok |-> ok, severity |-> RuleSeverity(r, ok),
        message |-> RuleMessage(r, ok, spec)]

RuleResult(r, m, spec) ==
    LET known == r.type \in KnownRuleTypes
        ok == IF known THEN RuleOk(r, m) ELSE TRUE
    IN [ruleId |-> r.id, ok |-> ok, severity |-> RuleSeverity(r, ok),
        message |-> RuleMessage(r, ok, spec)]

IssueSeverities == {"warn", "fail"}

\* if (!ok && (severity === "warn" || severity === "fail")) issues.push(...)
IsIssue(res) == ~res.ok /\ res.severity \in IssueSeverities

IssueOf(res) == [ruleId |-> res.ruleId, severity |-> res.severity, message |-> res.message]

RECURSIVE RuleResults(_, _, _)
RuleResults(rules, m, spec) ==
    IF rules = << >> THEN << >>
    ELSE << RuleResult(Head(rules), m, spec) >> \o RuleResults(Tail(rules), m, spec)

RECURSIVE IssuesOf(_)
IssuesOf(results) ==
    IF results = << >> THEN << >>
    ELSE (IF IsIssue(Head(results)) THEN << IssueOf(Head(results)) >> ELSE << >>)
         \o IssuesOf(Tail(results))

LowConfidenceIssue ==
    [ruleId |-> "confidence", severity |-> "fail", message |-> "Low keypoint confidence"]

LowConfidenceResult ==
    [ruleId |-> "confidence", ok |-> FALSE, severity |-> "fail",
     message |-> "Low keypoint confidence"]

\* return { valid: false, results, issues } of the confidence short-circuit
LowConfidenceOutcome ==
    [valid |-> FALSE, results |-> << LowConfidenceResult >>,
     issues |-> << LowConfidenceIssue >>]

\* faulty variant: a rep with any issue listed is reported invalid
AnyIssueInvalid(issues) == issues = << >>

\* const valid = !issues.some((i) => i.severity === "fail")
Valid(issues) == ~(\E i \in 1..Len(issues) : issues[i].severity = "fail")

\* the loop over spec.rules and the return that follows it
RulesOutcome(m, spec) ==
    LET results == RuleResults(spec.rules, m, spec)
        issues == IssuesOf(results)
    IN [valid |-> Valid(issues), results |-> results, issues |-> issues]

\* faulty variant: the confidence check is skipped
NoShortCircuit(m, spec) == RulesOutcome(m, spec)

applyExerciseRules(m, spec) ==
    IF m.confidence < spec.minConf
    THEN LowConfidenceOutcome
    ELSE RulesOutcome(m, spec)

(***************************************************************************)
(* POST /api/validate-rep: the server's evaluator of the same rule         *)
(* documents.  It reads every optional number with || or a truthiness      *)
(* test, so a configured 0 (and an empty message) counts as absent; it     *)
(* lists every rule that is not met as an issue, whatever its severity.    *)
(***************************************************************************)
backendMinConfidence == 40

\* ruleJson.metrics && ruleJson.metrics.min_confidence ? ... : 0.4
BackendMinConf(spec) == IF spec.minConf = 0 THEN backendMinConfidence ELSE spec.minConf

\* r.params && r.params.min_ratio ? r.params.min_ratio : 0.35, and so on
BackendParam(r) ==
    IF r.param # 0 THEN r.param
    ELSE CASE r.type = "ratio" -> 35
           [] r.type = "max" -> 250
           [] r.type = "min" -> 800
           [] OTHER -> 0

BackendRuleOk(r, m) ==
    CASE r.type = "ratio" -> RatioPct(m.hipY, m.kneeY) >= BackendParam(r)
      [] r.type = "max" ->
             (IF m.torsoAngleDeg = NaN THEN 0 ELSE m.torsoAngleDeg) <= BackendParam(r)
      [] r.type = "min" -> m.kneeAngle >= BackendParam(r)
      [] OTHER -> TRUE

\* (messages && messages[r.id] && messages[r.id][severity]) || (ok ? "ok" : "rule failed")
BackendMessage(r, ok, spec) ==
    LET sev == RuleSeverity(r, ok) IN
    IF r.type \notin KnownRuleTypes THEN "unknown_rule_type_skipped"
    ELSE IF << r.id, sev >> \in DOMAIN spec.messages /\ spec.messages[<< r.id, sev >>] # ""
         THEN spec.messages[<< r.id, sev >>]
    ELSE IF ok THEN "ok" ELSE "rule failed"

BackendRuleResult(r, m, spec) ==
    LET ok == BackendRuleOk(r, m)
    IN [ruleId |-> r.id, ok |-> ok, severity |-> RuleSeverity(r, ok),
        message |-> BackendMessage(r, ok, spec)]

RECURSIVE BackendResults(_, _, _)
BackendResults(rules, m, spec) ==
    IF rules = << >> THEN << >>
    ELSE << BackendRuleResult(Head(rules), m, spec) >>
         \o BackendResults(Tail(rules), m, spec)

\* if (!ok) issues.push({ ruleId, severity, message })
RECURSIVE BackendIssues(_)
BackendIssues(results) ==
    IF results = << >> THEN << >>
    ELSE (IF ~Head(results).ok THEN << IssueOf(Head(results)) >> ELSE << >>)
         \o BackendIssues(Tail(results))

\* the confidence result of the server carries no ok field
BackendLowConfidence ==
    [valid |-> FALSE, results |-> << LowConfidenceIssue >>,
     issues |-> << LowConfidenceIssue >>]

\* const valid = !issues.some((i) => i.severity === "fail")
BackendValid(issues) == ~(\E i \in 1..Len(issues) : issues[i].severity = "fail")

validateRep(m, spec) ==
    IF m.confidence < BackendMinConf(spec)
    THEN BackendLowConfidence
    ELSE LET results == BackendResults(spec.rules, m, spec)
             issues == BackendIssues(results)
         IN [valid |-> BackendValid(issues), results |-> results, issues |-> issues]

(***************************************************************************)
(* Primary issue selection:                                                *)
(*   ruleIssues.sort((a, b) => (a.severity === "fail" ? -1 : 1))[0]        *)
(* The comparator ignores b, so it is not a consistent comparator and the  *)
(* resulting order is implementation-defined (ECMAScript 23.1.3.30).  Two  *)
(* engine algorithms are modelled, each as it runs on arrays this short:   *)
(* V8's TimSort (initial run, then binary insertion) and a straight        *)
(* insertion sort (SpiderMonkey's path for short arrays).                  *)
(***************************************************************************)
IssueCompare(a, b) == IF a.severity = "fail" THEN 0 - 1 ELSE 1

Reverse(s) == [i \in 1..Len(s) |-> s[Len(s) + 1 - i]]

\* CountAndMakeRun: last index (1-based) of the run that starts at s[1], s[2]
RECURSIVE RunEnd(_, _, _)
RunEnd(s, desc, idx) ==
    IF idx > Len(s) THEN idx - 1
    ELSE LET order == IssueCompare(s[idx], s[idx - 1]) IN
         IF (desc /\ order >= 0) \/ (~desc /\ order < 0) THEN idx - 1
         ELSE RunEnd(s, desc, idx + 1)

\* binary search of BinaryInsertionSort, 0-based left/right
RECURSIVE BinarySearch(_, _, _, _)
BinarySearch(s, pivot, left, right) ==
    IF left >= right THEN left
    ELSE LET mid == left + ((right - left) \div 2) IN
         IF IssueCompare(pivot, s[mid + 1]) < 0
         THEN BinarySearch(s, pivot, left, mid)
         ELSE BinarySearch(s, pivot, mid + 1, right)

\* start: 0-based index of the first element not yet inserted
RECURSIVE BinaryInsertionSort(_, _)
BinaryInsertionSort(s, start) ==
    IF start >= Len(s) THEN s
    ELSE LET pivot == s[start + 1]
             left == BinarySearch(s, pivot, 0, start)
             t == SubSeq(s, 1, left) \o << pivot >> \o SubSeq(s, left + 1, start)
                  \o SubSeq(s, start + 2, Len(s))
         IN BinaryInsertionSort(t, start + 1)

TimSort(s) ==
    IF Len(s) < 2 THEN s
    ELSE LET desc == IssueCompare(s[2], s[1]) < 0
             run == RunEnd(s, desc, 3)
             t == IF desc THEN Reverse(SubSeq(s, 1, run)) \o SubSeq(s, run + 1, Len(s))
                  ELSE s
         IN BinaryInsertionSort(t, run)

\* straight insertion: item moves left while comparefn(swap, item) > 0
RECURSIVE InsertFromBack(_, _)
InsertFromBack(p, item) ==
    IF p = << >> THEN << item >>
    ELSE LET swap == p[Len(p)] IN
         IF IssueCompare(swap, item) <= 0 THEN Append(p, item)
         ELSE Append(InsertFromBack(SubSeq(p, 1, Len(p) - 1), item), swap)

RECURSIVE InsertionSort(_, _)
InsertionSort(s, i) ==
    IF i > Len(s) THEN s
    ELSE InsertionSort(InsertFromBack(SubSeq(s, 1, i - 1), s[i]) \o SubSeq(s, i + 1, Len(s)),
                       i + 1)

SortImpls == {"timsort", "insertion"}

SortIssues(issues, impl) ==
    IF impl = "timsort" THEN TimSort(issues) ELSE InsertionSort(issues, 2)

PrimaryIssue(issues, impl) == SortIssues(issues, impl)[1]

(***************************************************************************)
(* State                                                                   *)
(***************************************************************************)
VARIABLES
    now,                  \* Date.now()
    sortImpl,             \* the engine's Array.prototype.sort
    frameNo,              \* pose frames handed to processPoseMetrics so far
    ruleSpec,             \* useState<ExerciseRuleSpec | null>
    rulesFetch,           \* "pending" | "done": fetch(`/api/rules/${exerciseId}`)
    latestKeypoints,      \* latestKeypointsRef
    smoothingWindow,      \* raw hip rows, pixels
    baselineHip,          \* Null or Some(row)
    calibSamples,
    hipHistory,           \* hipHistoryRef
    windowConf,           \* avgConf of each frame of the window the rep gates last
                          \* looked at (observed where a scenario records it)
    downState,
    lastRepTs,            \* lastRepTsRef
    repCount,
    metrics,              \* the metrics panel state
    statusText,
    lastTipText,          \* lastTipTextRef
    issueFirstSeen,       \* issueFirstSeenRef   : rule id -> ms
    issueLastSpoken,      \* issueLastSpokenRef  : rule id -> ms
    issueSpokenCount,     \* issueSpokenCountRef : rule id -> count
    goodFormSince,        \* goodFormSinceRef    : Null or Some(ms)
    speakLog,             \* calls of speakTexts, in order
    ttsInFlight,          \* ttsInFlightRef
    ttsBackoffUntil,      \* ttsBackoffUntilRef
    perPhraseNextAllowed, \* perPhraseNextAllowedRef : phrase key -> ms
    lastTtsRequestTs,     \* lastTtsRequestTsRef
    currentPlayingText,   \* currentPlayingTextRef
    lastIssuesHash,       \* lastIssuesHashRef
    lastSpeakTs,          \* lastSpeakTsRef
    audioPaused,          \* ttsAudioRef.current.paused
    ttsCalls,             \* speakTexts invocations suspended at an await
    fetchLog,             \* POST /api/tts requests sent, in order
    evalInput,            \* Null, or Some of the arguments of a direct call of
                          \* applyExerciseRules: [metrics, spec], or of the
                          \* baseline computation: [samples]
    evalResult,           \* Null, or Some of what that call returned
    lastSettled,          \* Null, or Some of how the last speakTexts call that sent
                          \* a request came to its end
    repEvents,            \* "rep-complete" events dispatched on window, in order
    ttsByIpPhrase,        \* app.locals.ttsByIpPhrase: << ip, phrase >> -> [lastTs, count]
    ttsServed,            \* what POST /api/tts answered, in order
    mounted,              \* `let mounted` of the camera effect
    refsAttached,         \* videoRef.current and canvasRef.current are elements
    startPhase,           \* where start() of the camera effect is suspended
    detector,             \* "none" | "live" | "disposed": the MoveNet detector
    passesInFlight,       \* invocations of step() suspended at estimatePoses
    pendingTimers,        \* ids of the setTimeout(step) timers not yet fired
    detectIntervalRef,    \* Null or Some(timer id)
    timerSeq,             \* timers created so far (the last id handed out)
    exerciseIndex,        \* RoutineRunner: useState(0)
    setIndex,             \* RoutineRunner: useState(0)
    isResting,
    restLeft,             \* seconds
    restTimerRef,         \* Null, or Some(nextSet) captured by the interval callback
    liveReps

envVars == << now, sortImpl, frameNo, ruleSpec, rulesFetch >>
poseVars == << latestKeypoints, smoothingWindow, baselineHip, calibSamples, hipHistory,
               windowConf, downState, lastRepTs, repCount, metrics >>
gateVars == << statusText, lastTipText, issueFirstSeen, issueLastSpoken, issueSpokenCount,
               goodFormSince, speakLog >>
ttsVars == << ttsInFlight, ttsBackoffUntil, perPhraseNextAllowed, lastTtsRequestTs,
              currentPlayingText, lastIssuesHash, lastSpeakTs, audioPaused, ttsCalls,
              fetchLog >>
serverVars == << ttsByIpPhrase, ttsServed >>
loopVars == << mounted, refsAttached, startPhase, detector, passesInFlight, pendingTimers,
               detectIntervalRef, timerSeq >>
routineVars == << exerciseIndex, setIndex, isResting, restLeft, restTimerRef, liveReps >>
\* what the frame handler and speakTexts never touch
evalVars == << evalInput, evalResult, serverVars, loopVars, routineVars >>
vars == << envVars, poseVars, gateVars, ttsVars, evalVars, lastSettled, repEvents >>

Status(kind, text, n) == [kind |-> kind, text |-> text, n |-> n]

GoodFormStatus == Status("good", "Good form", 0)
WaitingStatus == Status("waiting", "Waiting for full body in frame...", 0)

(***************************************************************************)
(* speakTexts(texts, opts)                                                 *)
(***************************************************************************)
\* String.prototype.toLowerCase on the texts the rule specs below carry
LowerCase(s) ==
    CASE s = "Chest up" -> "chest up"
      [] s = "CHEST UP" -> "chest up"
      [] s = "Knees out" -> "knees out"
      [] s = "Go deeper" -> "go deeper"
      [] s = "Low keypoint confidence" -> "low keypoint confidence"
      [] s = "Depth insufficient" -> "depth insufficient"
      [] s = "Value exceeds max" -> "value exceeds max"
      [] s = "Value below min" -> "value below min"
      [] s = "Depth insufficient: try lowering your hip until it reaches knee level."
           -> "depth insufficient: try lowering your hip until it reaches knee level."
      [] s = "You are leaning forward; keep your chest up."
           -> "you are leaning forward; keep your chest up."
      [] OTHER -> s

\* texts.join(". ").trim() is empty
LineEmpty(texts) == texts = << >> \/ (Len(texts) = 1 /\ texts[1] = "")

\* line.toLowerCase(); the line is kept as the sequence of its joined texts
PhraseKey(texts) == [i \in 1..Len(texts) |-> LowerCase(texts[i])]

\* (faulty variant: a forced call is let through the 429 backoff)
ForceBypassesBackoff(texts, force, t) ==
    \/ LineEmpty(texts)
    \/ currentPlayingText = PhraseKey(texts) /\ ~audioPaused
    \/ ~force /\ t < ttsBackoffUntil
    \/ ~force /\ t < GetOr(perPhraseNextAllowed, PhraseKey(texts), 0)
    \/ ~force /\ globalSoftRequestMs > 0 /\ t - lastTtsRequestTs < globalSoftRequestMs
    \/ ~force /\ texts = lastIssuesHash /\ t - lastSpeakTs < debounceMs

\* the gates in front of the debounce bookkeeping (lines 636-657)
SpeakSuppressed(texts, force, t) ==
    \/ LineEmpty(texts)
    \/ currentPlayingText = PhraseKey(texts) /\ ~audioPaused
    \/ t < ttsBackoffUntil
    \/ t < GetOr(perPhraseNextAllowed, PhraseKey(texts), 0)
    \/ ~force /\ globalSoftRequestMs > 0 /\ t - lastTtsRequestTs < globalSoftRequestMs
    \/ ~force /\ texts = lastIssuesHash /\ t - lastSpeakTs < debounceMs

\* (faulty variant: the in-flight flag is not consulted)
MutexIgnored == maxConcurrentTts > 0

\* "Only one TTS request at a time"
SpeakMutexFree == maxConcurrentTts > 0 /\ ~ttsInFlight

NewCall(texts) == [id |-> Len(fetchLog) + 1, phraseKey |-> PhraseKey(texts), phase |-> "fetch"]

\* the synchronous part of speakTexts, up to `await fetch(...)`
speakTexts(texts, force, t) ==
    IF SpeakSuppressed(texts, force, t)
    THEN UNCHANGED ttsVars
    ELSE /\ lastIssuesHash' = texts
         /\ lastSpeakTs' = t
         /\ UNCHANGED << ttsBackoffUntil, perPhraseNextAllowed, lastTtsRequestTs,
                         currentPlayingText, audioPaused >>
         /\ IF SpeakMutexFree
            THEN /\ ttsInFlight' = TRUE
                 /\ ttsCalls' = ttsCalls \cup {NewCall(texts)}
                 /\ fetchLog' = Append(fetchLog, [ts |-> t, texts |-> texts, force |-> force])
            ELSE UNCHANGED << ttsInFlight, ttsCalls, fetchLog >>

(***************************************************************************)
(* Faulty variants of the operators below.  Each property of the rep       *)
(* counter has to tell the operator it rests on from its variant.          *)
(***************************************************************************)
\* a depth threshold at the knee itself
DepthAtKnee(baseline, kneeY) == kneeY

\* an up threshold at the knee itself
UpAtKnee(baseline, kneeY) == kneeY

\* no amplitude gate
AnyAmplitude(history) == TRUE

\* a confidence gate at half the minimum
HalfConfidence(avgConf) == 2 * avgConf >= repMinConfidence

\* no confidence gate
AnyConfidence(avgConf) == TRUE

\* no minimum interval
AnyInterval(t, lastTs) == TRUE

(***************************************************************************)
(* Rep counter (processPoseMetrics, lines 803-884)                         *)
(***************************************************************************)
\* baseline + 0.35 * (kneeY - baseline)
DepthThreshold(baseline, kneeY) == baseline + (depthFraction * (kneeY - baseline)) \div 100

\* baseline + 0.1 * (kneeY - baseline)
UpThreshold(baseline, kneeY) == baseline + (upFraction * (kneeY - baseline)) \div 100

\* Math.abs(Math.max(...hipHistory) - Math.min(...hipHistory))
AmplitudePx(history) == Abs(MaxSeq(history) - MinSeq(history))

MovementOK(history) == AmplitudePx(history) >= repMinAmplitudePx * PxScale

ConfidenceOK(avgConf) == avgConf >= repMinConfidence

IntervalOK(t, lastTs) == t - lastTs >= repMinIntervalMs

\* (faulty variant: a frame that fails a gate leaves the state as it was)
KeepDownOnGateFailure(down, history, lastTs, count, avgHipY, depth, up, avgConf, t) ==
    LET gatesOK == MovementOK(history) /\ ConfidenceOK(avgConf)
        entered == IF gatesOK THEN down \/ avgHipY >= depth ELSE down
        counted == gatesOK /\ entered /\ avgHipY <= up /\ IntervalOK(t, lastTs)
    IN [downState |-> IF counted THEN FALSE ELSE entered,
        lastRepTs |-> IF counted THEN t ELSE lastTs,
        repCount |-> IF counted THEN count + 1 ELSE count,
        hipHistory |-> IF counted THEN << >> ELSE history,
        wasDown |-> entered,
        counted |-> counted]

\* One pass of the rep state machine.  history already holds this frame's
\* smoothed row.  The result carries the new state and the frame's gates.
RepDetect(down, history, lastTs, count, avgHipY, depth, up, avgConf, t) ==
    LET movementOK == MovementOK(history)
        confidenceOK == ConfidenceOK(avgConf)
        intervalOK == IntervalOK(t, lastTs)
        gatesOK == movementOK /\ confidenceOK
        \* if (!downState.current && avgHipY >= depthThreshold) downState.current = true
        entered == gatesOK /\ (down \/ avgHipY >= depth)
        counted == gatesOK /\ entered /\ avgHipY <= up /\ intervalOK
    IN [downState |-> IF counted THEN FALSE ELSE entered,
        lastRepTs |-> IF counted THEN t ELSE lastTs,
        repCount |-> IF counted THEN count + 1 ELSE count,
        hipHistory |-> IF counted THEN << >> ELSE history,
        wasDown |-> entered,
        counted |-> counted]

(***************************************************************************)
(* Feedback gate (processPoseMetrics, lines 886-999)                       *)
(***************************************************************************)
\* (faulty variants: no patience window, no per-issue cooldown, a good-form
\* timer that never runs out)
NoPatience(t, firstSeen) == TRUE
NoCooldown(t, lastSpoken) == TRUE
NeverElapsed(t, since) == FALSE

\* (faulty variant: good form counts as sustained from its first frame)
AlwaysElapsed(t, since) == TRUE

PastPatience(t, firstSeen) == t - firstSeen >= patienceMs

CooledDown(t, lastSpoken) == t - lastSpoken >= perIssueCooldownMs

UnderRepeatCap(spokenCount) == spokenCount < maxRepeatsPerIssue

GoodFormElapsed(t, since) == t - since >= goodFormResetMs

\* results.filter(r => r.ok && ruleSpec.messages?.[r.ruleId]?.pass)
PassedWithMessage(results, spec) ==
    SelectSeq(results, LAMBDA r : /\ r.ok
                                  /\ << r.ruleId, "pass" >> \in DOMAIN spec.messages
                                  /\ spec.messages[<< r.ruleId, "pass" >>] # "")

\* ruleIssues.length === 0
GoodFormBranch(results, spec, t) ==
    LET since == IF goodFormSince = Null THEN t ELSE Val(goodFormSince)
        reset == GoodFormElapsed(t, since)
        passed == PassedWithMessage(results, spec)
    IN /\ goodFormSince' = Some(IF reset THEN t ELSE since)
       /\ issueFirstSeen' = IF reset THEN EmptyMap ELSE issueFirstSeen
       /\ issueLastSpoken' = IF reset THEN EmptyMap ELSE issueLastSpoken
       /\ issueSpokenCount' = IF reset THEN EmptyMap ELSE issueSpokenCount
       /\ statusText' = IF passed # << >> /\ praiseCooldownMs > 0
                        THEN Status("good", spec.messages[<< passed[1].ruleId, "pass" >>], 0)
                        ELSE GoodFormStatus
       /\ UNCHANGED << lastTipText, speakLog >>
       /\ UNCHANGED ttsVars

\* ruleIssues.length > 0
IssueBranch(issues, t) ==
    LET primary == PrimaryIssue(issues, sortImpl)
        issueKey == primary.ruleId
        message == primary.message
        firstSeen == GetOr(issueFirstSeen, issueKey, t)
        lastSpoken == GetOr(issueLastSpoken, issueKey, 0)
        spokenCount == GetOr(issueSpokenCount, issueKey, 0)
        pastPatience == PastPatience(t, firstSeen)
        cooledDown == CooledDown(t, lastSpoken)
        underRepeatCap == UnderRepeatCap(spokenCount)
        forceNewIssue == allowImmediateForNewIssue /\ pastPatience /\ cooledDown
        ids == {issues[i].ruleId : i \in 1..Len(issues)}
    IN /\ goodFormSince' = Null
       /\ issueFirstSeen' = [x \in (DOMAIN issueFirstSeen) \cup ids |->
                               IF x \in DOMAIN issueFirstSeen THEN issueFirstSeen[x] ELSE t]
       /\ lastTipText' = message
       /\ statusText' = Status("tip", message, 0)
       /\ IF pastPatience /\ cooledDown /\ underRepeatCap
          THEN /\ speakTexts(<< message >>, forceNewIssue, t)
               /\ issueLastSpoken' = Put(issueLastSpoken, issueKey, t)
               /\ issueSpokenCount' = Put(issueSpokenCount, issueKey, spokenCount + 1)
               /\ speakLog' = Append(speakLog, [ts |-> t, issue |-> issueKey,
                                                texts |-> << message >>,
                                                force |-> forceNewIssue])
          ELSE /\ UNCHANGED << issueLastSpoken, issueSpokenCount, speakLog >>
               /\ UNCHANGED ttsVars

FeedbackGate(ruleOut, spec, t) ==
    IF ruleOut.issues = << >>
    THEN GoodFormBranch(ruleOut.results, spec, t)
    ELSE IssueBranch(ruleOut.issues, t)

DepthTip == "Depth insufficient: try lowering your hip until it reaches knee level."
LeanTip == "You are leaning forward; keep your chest up."

\* rules not loaded: "provide simple local guidance"; torso is the unrounded
\* angle in hundredths of a degree
FallbackGuidance(avgHipY, depth, torso, t) ==
    LET fallbackMsgs == (IF avgHipY < depth THEN << DepthTip >> ELSE << >>)
                        \o (IF torso # NaN /\ torso > 3000 THEN << LeanTip >> ELSE << >>)
    IN /\ statusText' = IF fallbackMsgs # << >>
                        THEN Status("tip", fallbackMsgs[1], Len(fallbackMsgs))
                        ELSE GoodFormStatus
       /\ UNCHANGED << issueFirstSeen, issueLastSpoken, issueSpokenCount, goodFormSince >>
       /\ IF fallbackMsgs # << >>
          THEN /\ lastTipText' = fallbackMsgs[1]
               /\ speakTexts(fallbackMsgs, TRUE, t)
               /\ speakLog' = Append(speakLog, [ts |-> t, issue |-> "fallback",
                                                texts |-> fallbackMsgs, force |-> TRUE])
          ELSE /\ lastTipText' = ""
               /\ UNCHANGED speakLog
               /\ UNCHANGED ttsVars

\* faulty variant: the built-in checks report nothing
NoFallbackIssues(avgHipY, depth, torso) == << >>

FallbackIssueIds(avgHipY, depth, torso) ==
    (IF avgHipY < depth THEN << "depth_ratio" >> ELSE << >>)
    \o (IF torso # NaN /\ torso > 3000 THEN << "torso_angle" >> ELSE << >>)

\* results.filter(r => !r.ok).map(r => r.ruleId)
FailedRuleIds(results) ==
    LET failed == SelectSeq(results, LAMBDA r : ~r.ok)
    IN [i \in 1..Len(failed) |-> failed[i].ruleId]

(***************************************************************************)
(* processPoseMetrics(keypoints) at time t.                                *)
(*   kp : [complete, hipY, kneeY (pixel rows), score (percent, the mean of *)
(*         the six joint scores), torsoAngle, kneeAngle (hundredths of a   *)
(*         degree, as the atan2 / acos formulas give them)]                *)
(***************************************************************************)
\* smoothingWindow.reduce((a, b) => a + b, 0) / smoothingWindow.length
Smoothed(window) == (PxScale * SumSeq(window)) \div Len(window)

AfterCalibration(kp, avgHipY, baseline, t) ==
    LET kneeY == kp.kneeY * PxScale
        depth == DepthThreshold(baseline, kneeY)
        up == UpThreshold(baseline, kneeY)
        history == PushCapped(hipHistory, avgHipY, hipHistoryCap)
        rep == RepDetect(downState, history, lastRepTs, repCount, avgHipY, depth, up,
                         kp.score, t)
        torsoAngleDeg == ToFixed1(kp.torsoAngle)
        kneeAngle == ToFixed1(kp.kneeAngle)
        metricsBag == [hipY |-> avgHipY, kneeY |-> kneeY, torsoAngleDeg |-> torsoAngleDeg,
                       kneeAngle |-> kneeAngle,
                       confidence |-> Max2(0, Min2(100, kp.score))]
    IN /\ downState' = rep.downState
       /\ lastRepTs' = rep.lastRepTs
       /\ repCount' = rep.repCount
       /\ hipHistory' = rep.hipHistory
       /\ IF ruleSpec # Null
          THEN LET ruleOut == applyExerciseRules(metricsBag, Val(ruleSpec)) IN
               /\ metrics' = [hipY |-> avgHipY, depthThreshold |-> depth,
                              torsoAngleDeg |-> torsoAngleDeg, kneeAngle |-> kneeAngle,
                              issues |-> FailedRuleIds(ruleOut.results)]
               /\ FeedbackGate(ruleOut, Val(ruleSpec), t)
          ELSE /\ metrics' = [hipY |-> avgHipY, depthThreshold |-> depth,
                              torsoAngleDeg |-> torsoAngleDeg, kneeAngle |-> kneeAngle,
                              issues |-> FallbackIssueIds(avgHipY, depth, kp.torsoAngle)]
               /\ FallbackGuidance(avgHipY, depth, kp.torsoAngle, t)

\* faulty variant: samples are collected on every frame
KeepSampling(avgHipY) == Append(calibSamples, avgHipY)

\* if (baselineHip.current === null) calibSamples.current.push(avgHipY)
NextSamples(avgHipY) ==
    IF baselineHip = Null THEN Append(calibSamples, avgHipY) ELSE calibSamples

\* faulty variant: the baseline is taken from the first sample on
EarlyBaseline(samples) ==
    IF baselineHip # Null THEN baselineHip ELSE Some(Median(samples))

\* the baseline is the median of the samples once there are calibrateFrames
NextBaseline(samples) ==
    IF baselineHip # Null THEN baselineHip
    ELSE IF Len(samples) >= calibrateFrames THEN Some(Median(samples)) ELSE Null

processPoseMetrics(kp, t) ==
    /\ latestKeypoints' = Some(kp)
    \* the function dispatches no event: setRepCount is all a counted rep does
    /\ UNCHANGED repEvents
    /\ IF ~kp.complete
       THEN /\ statusText' = WaitingStatus
            /\ metrics' = [metrics EXCEPT !.issues = << "low_confidence" >>]
            /\ UNCHANGED << smoothingWindow, baselineHip, calibSamples, hipHistory,
                            downState, lastRepTs, repCount >>
            /\ UNCHANGED << lastTipText, issueFirstSeen, issueLastSpoken,
                            issueSpokenCount, goodFormSince, speakLog >>
            /\ UNCHANGED ttsVars
       ELSE LET window == PushCapped(smoothingWindow, kp.hipY, smoothingCap)
                avgHipY == Smoothed(window)
                samples == NextSamples(avgHipY)
                baseline == NextBaseline(samples)
            IN /\ smoothingWindow' = window
               /\ calibSamples' = samples
               /\ baselineHip' = baseline
               /\ IF baseline = Null
                  THEN /\ statusText' = Status("calibrating", "Calibrating... stand still",
                                               Len(samples))
                       /\ UNCHANGED << hipHistory, downState, lastRepTs, repCount, metrics >>
                       /\ UNCHANGED << lastTipText, issueFirstSeen, issueLastSpoken,
                                       issueSpokenCount, goodFormSince, speakLog >>
                       /\ UNCHANGED ttsVars
                  ELSE AfterCalibration(kp, avgHipY, Val(baseline), t)

(***************************************************************************)
(* Initial state: the refs and state hooks as CameraFeed constructs them   *)
(***************************************************************************)
EnvInit ==
    /\ now = StartTs
    /\ sortImpl \in SortImpls
    /\ frameNo = 0
    /\ ruleSpec = Null
    /\ rulesFetch = "pending"

PoseInit ==
    /\ latestKeypoints = Null
    /\ smoothingWindow = << >>
    /\ baselineHip = Null
    /\ calibSamples = << >>
    /\ hipHistory = << >>
    /\ windowConf = << >>
    /\ downState = FALSE
    /\ lastRepTs = 0
    /\ repCount = 0
    /\ metrics = [hipY |-> 0, depthThreshold |-> 0, torsoAngleDeg |-> 0, kneeAngle |-> 0,
                  issues |-> << >>]
    /\ statusText = Status("init", "Initializing camera...", 0)
    /\ lastTipText = ""

\* The four feedback refs are used by processPoseMetrics but declared nowhere
\* in the component; they start as the data model describes them (empty
\* per-issue bookkeeping, no good-form timer).
GateInit ==
    /\ issueFirstSeen = EmptyMap
    /\ issueLastSpoken = EmptyMap
    /\ issueSpokenCount = EmptyMap
    /\ goodFormSince = Null
    /\ speakLog = << >>

\* the <audio> element is created on mount, so ttsAudioRef is never null
TtsInit ==
    /\ ttsInFlight = FALSE
    /\ ttsBackoffUntil = 0
    /\ perPhraseNextAllowed = EmptyMap
    /\ lastTtsRequestTs = 0
    /\ currentPlayingText = << >>
    /\ lastIssuesHash = << >>
    /\ lastSpeakTs = 0
    /\ audioPaused = TRUE
    /\ ttsCalls = {}
    /\ fetchLog = << >>

\* no direct call of the rule evaluator is pending
EvalInit ==
    /\ evalInput = Null
    /\ evalResult = Null

\* no request has been sent, no event dispatched
LogInit ==
    /\ lastSettled = Null
    /\ repEvents = << >>

\* the server has just started: no phrase has a record
ServerInit ==
    /\ ttsByIpPhrase = EmptyMap
    /\ ttsServed = << >>

\* the camera effect has just run: start() awaits getUserMedia
LoopInit ==
    /\ mounted = TRUE
    /\ refsAttached = TRUE
    /\ startPhase = "camera"
    /\ detector = "none"
    /\ passesInFlight = 0
    /\ pendingTimers = {}
    /\ detectIntervalRef = Null
    /\ timerSeq = 0

\* RoutineRunner as constructed: first exercise, first set, no rest running
RoutineInit ==
    /\ exerciseIndex = 0
    /\ setIndex = 0
    /\ isResting = FALSE
    /\ restLeft = 0
    /\ restTimerRef = Null
    /\ liveReps = 0

Init ==
    /\ EnvInit /\ PoseInit /\ GateInit /\ TtsInit /\ EvalInit /\ LogInit /\ ServerInit
    /\ LoopInit /\ RoutineInit

(***************************************************************************)
(* Actions                                                                 *)
(***************************************************************************)
\* useEffect: fetch(`/api/rules/${exerciseId}`) resolved with a spec
RulesLoaded(spec) ==
    /\ rulesFetch = "pending"
    /\ rulesFetch' = "done"
    /\ ruleSpec' = Some(spec)
    /\ UNCHANGED << now, sortImpl, frameNo >>
    /\ UNCHANGED << poseVars, gateVars, ttsVars, evalVars, lastSettled, repEvents >>

\* ... or rejected / not ok: setRuleSpec(null)
RulesFailed ==
    /\ rulesFetch = "pending"
    /\ rulesFetch' = "done"
    /\ ruleSpec' = Null
    /\ UNCHANGED << now, sortImpl, frameNo >>
    /\ UNCHANGED << poseVars, gateVars, ttsVars, evalVars, lastSettled, repEvents >>

\* step() of startDetectionLoop with a detected pose, dt after the last event
\* (the next step is scheduled detectIntervalMs after the previous one ends)
DetectFrame(kp, dt) ==
    /\ dt >= detectIntervalMs
    /\ now' = now + dt
    /\ frameNo' = frameNo + 1
    /\ UNCHANGED << sortImpl, ruleSpec, rulesFetch >>
    /\ UNCHANGED << evalInput, evalResult, serverVars, routineVars, lastSettled >>
    /\ processPoseMetrics(kp, now')

DetectStep(kp, dt) == DetectFrame(kp, dt) /\ UNCHANGED << windowConf, loopVars >>

\* The same step with the confidences of the gate window recorded: avgConf
\* is pushed for every frame whose row is pushed to hipHistoryRef (lines
\* 849-851), onto an empty list when the ref was empty (first frame, or the
\* frame after a counted rep, line 879).
ObservedStep(kp, dt) ==
    /\ DetectFrame(kp, dt)
    /\ UNCHANGED loopVars
    /\ windowConf' = IF kp.complete /\ baselineHip' # Null
                     THEN PushCapped(IF hipHistory = << >> THEN << >> ELSE windowConf,
                                     kp.score, hipHistoryCap)
                     ELSE windowConf

\* a caller invoking speakTexts directly (the periodic speaker loop, or any
\* other user of the function), d after the last event
SpeakCall(texts, force, d) ==
    /\ now' = now + d
    /\ speakTexts(texts, force, now')
    /\ speakLog' = Append(speakLog, [ts |-> now', issue |-> "direct", texts |-> texts,
                                     force |-> force])
    /\ UNCHANGED << sortImpl, frameNo, ruleSpec, rulesFetch >>
    /\ UNCHANGED << statusText, lastTipText, issueFirstSeen, issueLastSpoken,
                    issueSpokenCount, goodFormSince >>
    /\ UNCHANGED << poseVars, evalVars, lastSettled, repEvents >>

\* what the continuations of speakTexts leave alone
TtsFrame(d) ==
    /\ now' = now + d
    /\ UNCHANGED << sortImpl, frameNo, ruleSpec, rulesFetch >>
    /\ UNCHANGED << poseVars, gateVars, evalVars, repEvents >>
    /\ UNCHANGED << lastIssuesHash, lastSpeakTs, fetchLog >>

\* faulty variant: an error thrown inside the try block leaves the function
Uncaught(cause) == IF cause = "error" THEN "rejected" ELSE "resolved"

\* how the promise of speakTexts settles: the 429 branch returns, catch
\* returns, and a play() that resolved or was rejected falls off the end
PromiseOutcome(cause) == "resolved"

\* what the 429 response carried: header is Null (no Retry-After) or
\* Some(seconds), 0 for a value that is NaN or not positive; body is Null
\* (not read, unparsable, no numeric next_allowed_in_ms) or Some(ms)
Hints(header, body) == [header |-> header, body |-> body]

NoHints == Hints(Null, Null)

\* the call ends; finally { ttsInFlightRef.current = false }
Settle(c, cause, hints) ==
    /\ ttsInFlight' = FALSE
    /\ ttsCalls' = ttsCalls \ {c}
    /\ lastSettled' = Some([id |-> c.id, phraseKey |-> c.phraseKey, cause |-> cause,
                            hints |-> hints, outcome |-> PromiseOutcome(cause)])

\* the call goes on to its next await
Advance(c, phase) ==
    /\ ttsCalls' = (ttsCalls \ {c}) \cup {[c EXCEPT !.phase = phase]}
    /\ UNCHANGED lastSettled

\* faulty variant: the delay the provider suggested is taken as it is
HintAsGiven(hintMs) == IF hintMs = Null THEN ttsBackoffOn429Ms ELSE Val(hintMs)

\* let retryMs = coachConfig.ttsBackoffOn429Ms; retryMs = Math.max(retryMs, hint)
\* when the response carries a usable hint (hintMs is then Some of it)
RetryMs(hintMs) ==
    IF hintMs = Null THEN ttsBackoffOn429Ms ELSE Max2(ttsBackoffOn429Ms, Val(hintMs))

\* the backoff written by the 429 branch
Backoff(c, retryMs) ==
    LET until == now' + retryMs IN
    /\ ttsBackoffUntil' = Max2(ttsBackoffUntil, until)
    /\ perPhraseNextAllowed' = Put(perPhraseNextAllowed, c.phraseKey, until)

\* 429 with a Retry-After header; sec = 0 stands for a value that is NaN or
\* not positive
TtsRateLimitedHeader(c, sec, d) ==
    /\ c \in ttsCalls /\ c.phase = "fetch"
    /\ TtsFrame(d)
    /\ Backoff(c, RetryMs(IF sec > 0 THEN Some(sec * 1000) ELSE Null))
    /\ UNCHANGED << lastTtsRequestTs, currentPlayingText, audioPaused >>
    /\ Settle(c, "rate-limited", Hints(Some(sec), Null))

\* 429 without the header: await resp.clone().json()
TtsRateLimitedNoHeader(c, d) ==
    /\ c \in ttsCalls /\ c.phase = "fetch"
    /\ TtsFrame(d)
    /\ Advance(c, "json")
    /\ UNCHANGED << ttsInFlight, ttsBackoffUntil, perPhraseNextAllowed, lastTtsRequestTs,
                    currentPlayingText, audioPaused >>

\* the body parsed: j is Null (no numeric next_allowed_in_ms, or the parse
\* threw) or Some(ms)
TtsRateLimitedJson(c, j, d) ==
    /\ c \in ttsCalls /\ c.phase = "json"
    /\ TtsFrame(d)
    /\ Backoff(c, RetryMs(j))
    /\ UNCHANGED << lastTtsRequestTs, currentPlayingText, audioPaused >>
    /\ Settle(c, "rate-limited", Hints(Null, j))

\* the awaits a rejection or a non-audio response can end
FailablePhases == {"fetch", "blob"}

\* fetch rejected, response not ok or not audio, or resp.blob() rejected
TtsFailed(c, d) ==
    /\ c \in ttsCalls /\ c.phase \in FailablePhases
    /\ TtsFrame(d)
    /\ UNCHANGED << ttsBackoffUntil, perPhraseNextAllowed, lastTtsRequestTs,
                    currentPlayingText, audioPaused >>
    /\ Settle(c, "error", NoHints)

\* an audio response: await resp.blob()
TtsAudioResponse(c, d) ==
    /\ c \in ttsCalls /\ c.phase = "fetch"
    /\ TtsFrame(d)
    /\ Advance(c, "blob")
    /\ UNCHANGED << ttsInFlight, ttsBackoffUntil, perPhraseNextAllowed, lastTtsRequestTs,
                    currentPlayingText, audioPaused >>

\* the blob arrived: pause(), bookkeeping, src = url, await play(); play()
\* clears `paused` at once when the browser allows playback
TtsBlobReady(c, allowed, d) ==
    /\ c \in ttsCalls /\ c.phase = "blob"
    /\ TtsFrame(d)
    /\ currentPlayingText' = c.phraseKey
    /\ lastTtsRequestTs' = now'
    /\ audioPaused' = ~allowed
    /\ Advance(c, IF allowed THEN "play" ELSE "blocked")
    /\ UNCHANGED << ttsInFlight, ttsBackoffUntil, perPhraseNextAllowed >>

PlayPhases == {"play", "blocked"}

\* play() resolved, or rejected (the Web Speech fallback speaks instead)
TtsPlaySettled(c, d) ==
    /\ c \in ttsCalls /\ c.phase \in PlayPhases
    /\ TtsFrame(d)
    /\ UNCHANGED << ttsBackoffUntil, perPhraseNextAllowed, lastTtsRequestTs,
                    currentPlayingText, audioPaused >>
    /\ Settle(c, IF c.phase = "play" THEN "played" ELSE "play-rejected", NoHints)

\* playback reached the end of the clip: the element pauses itself; no onended
\* handler was installed, because the element existed before the first request
AudioEnded ==
    /\ ~audioPaused
    /\ \A c \in ttsCalls : c.phase # "play"
    /\ audioPaused' = TRUE
    /\ UNCHANGED << envVars, poseVars, gateVars, evalVars, lastSettled, repEvents >>
    /\ UNCHANGED << ttsInFlight, ttsBackoffUntil, perPhraseNextAllowed, lastTtsRequestTs,
                    currentPlayingText, lastIssuesHash, lastSpeakTs, ttsCalls, fetchLog >>

(***************************************************************************)
(* POST /api/tts (backend/index.js, lines 710-794): the per-phrase rate    *)
(* limit in front of the speech provider.  The server's environment is the *)
(* default one: TTS_RATE_LIMIT_DISABLED, TTS_PER_PHRASE_COOLDOWN_MS and    *)
(* TTS_MAX_REPEATS_PER_PHRASE unset.                                       *)
(***************************************************************************)
ttsRateLimitDisabled == FALSE
ttsPerPhraseCooldownMs == 11000
ttsMaxRepeatsPerPhrase == 3

NoTtsEntry == [lastTs |-> 0, count |-> 0]

\* 400 missing_text, and 429 max_repeats_reached (no Retry-After, no
\* next_allowed_in_ms)
MissingTextAnswer ==
    [status |-> 400, admitted |-> FALSE, retryAfter |-> Null, nextAllowedInMs |-> Null]
MaxRepeatsAnswer ==
    [status |-> 429, admitted |-> FALSE, retryAfter |-> Null, nextAllowedInMs |-> Null]

\* app.locals.ttsByIpPhrase.get(mapKey) || { lastTs: 0, count: 0 }
TtsEntry(ip, phraseKey) ==
    IF << ip, phraseKey >> \in DOMAIN ttsByIpPhrase
    THEN ttsByIpPhrase[<< ip, phraseKey >>] ELSE NoTtsEntry

\* (faulty variant: the repeat limit is not enforced)
CooldownOnly(entry, nowTs) ==
    IF ttsRateLimitDisabled THEN "admit"
    ELSE IF nowTs - entry.lastTs < ttsPerPhraseCooldownMs THEN "cooldown" ELSE "admit"

\* (faulty variant: the cooldown is the client's)
ClientCooldown(entry, nowTs) ==
    IF ttsRateLimitDisabled THEN "admit"
    ELSE IF nowTs - entry.lastTs < perIssueCooldownMs THEN "cooldown"
    ELSE IF entry.count >= ttsMaxRepeatsPerPhrase THEN "max"
    ELSE "admit"

\* the two checks of lines 733-745
TtsRateCheck(entry, nowTs) ==
    IF ttsRateLimitDisabled THEN "admit"
    ELSE IF nowTs - entry.lastTs < ttsPerPhraseCooldownMs THEN "cooldown"
    ELSE IF entry.count >= ttsMaxRepeatsPerPhrase THEN "max"
    ELSE "admit"

\* Math.ceil(retryMs / 1000)
CeilSecs(ms) == (ms + 999) \div 1000

\* What the handler answers to a request with this text arriving at nowTs;
\* upstream is the status the request ends with once admitted (200 audio,
\* 501 no API key, 502 provider not ok, 500 exception).
TtsAnswer(ip, texts, nowTs, upstream) ==
    LET entry == TtsEntry(ip, PhraseKey(texts))
        check == TtsRateCheck(entry, nowTs)
        retryMs == ttsPerPhraseCooldownMs - (nowTs - entry.lastTs)
    IN IF LineEmpty(texts)
       THEN MissingTextAnswer
       ELSE IF check = "cooldown"
       THEN [status |-> 429, admitted |-> FALSE, retryAfter |-> Some(CeilSecs(retryMs)),
             nextAllowedInMs |-> Some(retryMs)]
       ELSE IF check = "max"
       THEN MaxRepeatsAnswer
       ELSE [status |-> upstream, admitted |-> TRUE, retryAfter |-> Null,
             nextAllowedInMs |-> Null]

\* the handler run on one request: the record is written before the provider
\* is called (line 748)
ttsEndpoint(ip, texts, nowTs, upstream) ==
    LET answer == TtsAnswer(ip, texts, nowTs, upstream)
        key == << ip, PhraseKey(texts) >>
    IN /\ ttsByIpPhrase' =
             IF answer.admitted
             THEN Put(ttsByIpPhrase, key,
                      [lastTs |-> nowTs, count |-> TtsEntry(ip, PhraseKey(texts)).count + 1])
             ELSE ttsByIpPhrase
       /\ ttsServed' = Append(ttsServed, [ts |-> nowTs, ip |-> ip, texts |-> texts,
                                           status |-> answer.status,
                                           admitted |-> answer.admitted,
                                           retryAfter |-> answer.retryAfter,
                                           nextAllowedInMs |-> answer.nextAllowedInMs])

\* a request reaches the server d ms after the previous event
TtsRequest(ip, texts, upstream, d) ==
    /\ now' = now + d
    /\ ttsEndpoint(ip, texts, now', upstream)
    /\ UNCHANGED << sortImpl, frameNo, ruleSpec, rulesFetch >>
    /\ UNCHANGED << poseVars, gateVars, ttsVars, evalInput, evalResult, lastSettled, repEvents >>
    /\ UNCHANGED << loopVars, routineVars >>

(***************************************************************************)
(* The rule evaluators called on their own: the client's applyExerciseRules *)
(* and the server's POST /api/validate-rep, on the same metrics and rule   *)
(* document.                                                               *)
(***************************************************************************)
EvalDone(via, out) ==
    /\ evalInput # Null
    /\ evalResult = Null
    /\ evalResult' = Some([via |-> via, out |-> out])
    /\ UNCHANGED << envVars, poseVars, gateVars, ttsVars, evalInput, lastSettled, repEvents >>
    /\ UNCHANGED << serverVars, loopVars, routineVars >>

Evaluate ==
    EvalDone("client", applyExerciseRules(Val(evalInput).metrics, Val(evalInput).spec))

ValidateRep ==
    EvalDone("server", validateRep(Val(evalInput).metrics, Val(evalInput).spec))

(***************************************************************************)
(* Inputs                                                                  *)
(***************************************************************************)
KpAt(hipY, kneeY, score, torso, knee) ==
    [complete |-> TRUE, hipY |-> hipY, kneeY |-> kneeY, score |-> score,
     torsoAngle |-> torso, kneeAngle |-> knee]

\* a hip, knee or ankle keypoint is missing from the pose
NoBodyKp ==
    [complete |-> FALSE, hipY |-> 0, kneeY |-> 0, score |-> 0, torsoAngle |-> 0,
     kneeAngle |-> 0]

\* the knee tracked at row 400
Kp(hipY, score, torso, knee) == KpAt(hipY, 400, score, torso, knee)

\* both shoulder keypoints are missing from the pose: shoulderX and shoulderY
\* are NaN and so is the torso angle
NoShoulderKp(hipY, score) == Kp(hipY, score, NaN, 9000)

\* the athlete standing still: hip row 300, knee row 400, upright
StandKp == Kp(300, 90, 1000, 9000)

SquatMessages ==
    (<< "torso", "fail" >> :> "Chest up") @@ (<< "torso", "warn" >> :> "Chest up")
    @@ (<< "knee", "fail" >> :> "Knees out") @@ (<< "knee", "warn" >> :> "Knees out")
    @@ (<< "depth", "warn" >> :> "Go deeper") @@ (<< "torso", "pass" >> :> "Nice upright torso")

Rule(id, type, param, severity) ==
    [id |-> id, type |-> type, param |-> param, severity |-> severity]

\* depth ratio >= 0.35 (warn by default), torso <= 25 deg, knee angle >= 80 deg
SquatRules(torsoSeverity, kneeSeverity) ==
    [minConf |-> 40,
     rules |-> << Rule("depth", "ratio", 35, "none"),
                  Rule("torso", "max", 250, torsoSeverity),
                  Rule("knee", "min", 800, kneeSeverity) >>,
     messages |-> SquatMessages]

SquatSpec == SquatRules("fail", "warn")

(***************************************************************************)
(* Rep-counter scenarios: rules loaded, 40 calibration frames standing     *)
(* still, then up to MaxRepFrames frames 200 ms apart with hip rows from   *)
(* RepHipRows, or a frame with poor tracking (score 0.5), or a frame whose  *)
(* knee keypoint lands above the standing hip (row 200).                   *)
(***************************************************************************)
RepHipRows == {204, 300, 420, 480}
RepFrames ==
    {Kp(h, 90, 1000, 9000) : h \in RepHipRows}
    \cup {Kp(204, 50, 1000, 9000), KpAt(204, 200, 90, 1000, 9000), NoBodyKp}
RepGaps == {200}

RepRulesLoaded == RulesLoaded(SquatSpec)

RepCalibrate ==
    /\ ruleSpec # Null
    /\ baselineHip = Null
    /\ DetectStep(StandKp, 200)

RepFrame ==
    /\ baselineHip # Null
    /\ frameNo < calibrateFrames + MaxRepFrames
    /\ \E kp \in RepFrames, dt \in RepGaps : DetectStep(kp, dt)

NextRep == RepRulesLoaded \/ RepCalibrate \/ RepFrame

SpecRep == Init /\ [][NextRep]_vars

(***************************************************************************)
(* Feedback-gate scenarios.  The athlete stands at hip row 300 throughout  *)
(* (the rep counter idles); frames differ in the torso angle (30 degrees   *)
(* breaks the 25-degree maximum) and the knee angle (70 degrees breaks the *)
(* 80-degree minimum).                                                     *)
(***************************************************************************)
GoodKp == Kp(300, 90, 1000, 9000)
TorsoKp == Kp(300, 90, 3000, 9000)
KneeKp == Kp(300, 90, 1000, 7000)
BothKp == Kp(300, 90, 3000, 7000)

\* A rule failing on every frame: torso (warn) fails throughout, knee (fail)
\* on some frames; frames 200, 1500 or 8000 ms apart.
PersistFrames == {TorsoKp, BothKp}
PersistGaps == {200, 1500, 8000}

PersistSpec == SquatRules("warn", "fail")

PersistRulesLoaded == RulesLoaded(PersistSpec)

PersistFrame ==
    /\ baselineHip # Null
    /\ frameNo < calibrateFrames + MaxPersistFrames
    /\ \E kp \in PersistFrames, dt \in PersistGaps : DetectStep(kp, dt)

NextPersist == PersistRulesLoaded \/ RepCalibrate \/ PersistFrame

SpecPersist == Init /\ [][NextPersist]_vars

\* Good form and one recurring issue: torso (fail) frames 200, 1500 or 8000 ms
\* after the previous frame, good frames 200 or 5000 ms after it.
ResetFrames ==
    {<< TorsoKp, 200 >>, << TorsoKp, 1500 >>, << TorsoKp, 8000 >>,
     << GoodKp, 200 >>, << GoodKp, 5000 >>}

ResetFrame ==
    /\ baselineHip # Null
    /\ frameNo < calibrateFrames + MaxGateFrames
    /\ \E f \in ResetFrames : DetectStep(f[1], f[2])

NextReset == RepRulesLoaded \/ RepCalibrate \/ ResetFrame

SpecReset == Init /\ [][NextReset]_vars

\* Several issues at once: any severities for the torso and knee rules, frames
\* with neither, either or both rules failing.
PrioritySpecs == {SquatRules(a, b) : a \in IssueSeverities, b \in IssueSeverities}
PriorityFrames == {GoodKp, TorsoKp, KneeKp, BothKp}
PriorityGaps == {200, 1500}

PriorityRulesLoaded == \E spec \in PrioritySpecs : RulesLoaded(spec)

PriorityFrame ==
    /\ baselineHip # Null
    /\ frameNo < calibrateFrames + MaxPriorityFrames
    /\ \E kp \in PriorityFrames, dt \in PriorityGaps : DetectStep(kp, dt)

NextPriority == PriorityRulesLoaded \/ RepCalibrate \/ PriorityFrame

SpecPriority == Init /\ [][NextPriority]_vars

(***************************************************************************)
(* Speech scenarios: speakTexts called with either tip, forced or not, 500 *)
(* or 2000 ms after the previous event; every outcome of the request, each *)
(* continuation 500 ms after the previous event.                           *)
(***************************************************************************)
SpeakLines == {<< "Chest up" >>, << "Knees out" >>}
SpeakGaps == {500, 2000}
TtsGaps == {500}
\* Retry-After in seconds (0: absent a usable value) and next_allowed_in_ms
RetryAfterSecs == {0, 10}
NextAllowedMs == {Null, Some(12000)}

SpeakEvent ==
    /\ Len(speakLog) < MaxSpeakEvents
    /\ \E texts \in SpeakLines, force \in BOOLEAN, d \in SpeakGaps : SpeakCall(texts, force, d)

RateLimitedHeaderEvent ==
    \E c \in ttsCalls, sec \in RetryAfterSecs, d \in TtsGaps : TtsRateLimitedHeader(c, sec, d)

RateLimitedNoHeaderEvent == \E c \in ttsCalls, d \in TtsGaps : TtsRateLimitedNoHeader(c, d)

RateLimitedJsonEvent ==
    \E c \in ttsCalls, j \in NextAllowedMs, d \in TtsGaps : TtsRateLimitedJson(c, j, d)

FailedEvent == \E c \in ttsCalls, d \in TtsGaps : TtsFailed(c, d)

AudioResponseEvent == \E c \in ttsCalls, d \in TtsGaps : TtsAudioResponse(c, d)

BlobReadyEvent ==
    \E c \in ttsCalls, allowed \in BOOLEAN, d \in TtsGaps : TtsBlobReady(c, allowed, d)

PlaySettledEvent == \E c \in ttsCalls, d \in TtsGaps : TtsPlaySettled(c, d)

NextSpeak ==
    \/ SpeakEvent
    \/ RateLimitedHeaderEvent
    \/ RateLimitedNoHeaderEvent
    \/ RateLimitedJsonEvent
    \/ FailedEvent
    \/ AudioResponseEvent
    \/ BlobReadyEvent
    \/ PlaySettledEvent
    \/ AudioEnded

SpecSpeak == Init /\ [][NextSpeak]_vars

(***************************************************************************)
(* Rate-limit scenarios: speakTexts called with either tip, forced or not, *)
(* 2 or 13 s after the previous event, and every request answered 429:     *)
(* with a Retry-After header of 3 or 10 s or one that is not a positive    *)
(* number (0), or without the header and a body that carries               *)
(* next_allowed_in_ms 3000 or 12000 or none.                               *)
(***************************************************************************)
MaxBackoffCalls == 3

BackoffGaps == {2000, 13000}
BackoffRetryAfterSecs == {0, 3, 10}
BackoffNextAllowedMs == {Null, Some(3000), Some(12000)}

BackoffSpeakEvent ==
    /\ Len(speakLog) < MaxBackoffCalls
    /\ \E texts \in SpeakLines, force \in BOOLEAN, d \in BackoffGaps : SpeakCall(texts, force, d)

BackoffHeaderEvent ==
    \E c \in ttsCalls, sec \in BackoffRetryAfterSecs, d \in TtsGaps :
        TtsRateLimitedHeader(c, sec, d)

BackoffJsonEvent ==
    \E c \in ttsCalls, j \in BackoffNextAllowedMs, d \in TtsGaps : TtsRateLimitedJson(c, j, d)

NextBackoff ==
    \/ BackoffSpeakEvent
    \/ BackoffHeaderEvent
    \/ RateLimitedNoHeaderEvent
    \/ BackoffJsonEvent

SpecBackoff == Init /\ [][NextBackoff]_vars

(***************************************************************************)
(* Scenarios without rules: the fetch of the rule spec is pending or has   *)
(* failed.  40 standing calibration frames, then up to MaxFallbackFrames   *)
(* frames 200 ms apart with the hip at row 480 or 204 and the torso at 10  *)
(* or 35 degrees; each of the first MaxFallbackFailures TTS requests may   *)
(* fail 500 ms after the previous event, the next stays in flight.         *)
(***************************************************************************)
MaxFallbackFrames == 6
MaxFallbackFailures == 2

FallbackHipRows == {204, 480}
FallbackTorsoAngles == {1000, 3500}
FallbackFrames == {Kp(h, 90, a, 9000) : h \in FallbackHipRows, a \in FallbackTorsoAngles}
FallbackGaps == {200}

FallbackCalibrate ==
    /\ ruleSpec = Null
    /\ baselineHip = Null
    /\ DetectStep(StandKp, 200)

FallbackFrame ==
    /\ ruleSpec = Null
    /\ baselineHip # Null
    /\ frameNo < calibrateFrames + MaxFallbackFrames
    /\ \E kp \in FallbackFrames, dt \in FallbackGaps : DetectStep(kp, dt)

FallbackFailedEvent ==
    /\ Len(fetchLog) <= MaxFallbackFailures
    /\ FailedEvent

NextFallback == RulesFailed \/ FallbackCalibrate \/ FallbackFrame \/ FallbackFailedEvent

SpecFallback == Init /\ [][NextFallback]_vars

(***************************************************************************)
(* Tracking-quality scenarios for the rep gates.  Rules loaded, 40         *)
(* calibration frames standing still at score 0.9, then up to              *)
(* MaxConfFrames frames 200 ms apart: standing or at row 480 tracked       *)
(* poorly (0.3), at row 480 or 204 tracked at 0.65.  The confidences of    *)
(* the gate window are recorded.                                           *)
(***************************************************************************)
MaxConfFrames == 7

ConfFrames ==
    {Kp(300, 30, 1000, 9000), Kp(480, 30, 1000, 9000), Kp(480, 65, 1000, 9000),
     Kp(204, 65, 1000, 9000)}
ConfGaps == {200}

ConfCalibrate ==
    /\ ruleSpec # Null
    /\ baselineHip = Null
    /\ ObservedStep(StandKp, 200)

ConfFrame ==
    /\ baselineHip # Null
    /\ frameNo < calibrateFrames + MaxConfFrames
    /\ \E kp \in ConfFrames, dt \in ConfGaps : ObservedStep(kp, dt)

NextConfidence == RepRulesLoaded \/ ConfCalibrate \/ ConfFrame

SpecConfidence == Init /\ [][NextConfidence]_vars

(***************************************************************************)
(* Server scenarios: up to MaxServerRequests requests to POST /api/tts     *)
(* from two client addresses, 3000 or 11000 ms apart, with the text        *)
(* "Chest up" in two spellings or an empty text; an admitted request ends  *)
(* with audio (200) or with the provider's failure (502).                  *)
(***************************************************************************)
MaxServerRequests == 4

ServerIps == {"10.0.0.1", "10.0.0.2"}
ServerTexts == {<< "Chest up" >>, << "CHEST UP" >>, << "" >>}
ServerGaps == {3000, 11000}
ServerUpstream == {200, 502}

ServerRequest ==
    /\ Len(ttsServed) < MaxServerRequests
    /\ \E ip \in ServerIps, texts \in ServerTexts, up \in ServerUpstream, d \in ServerGaps :
          TtsRequest(ip, texts, up, d)

SpecServer == Init /\ [][ServerRequest]_vars

(***************************************************************************)
(* Client and server together, both in their default configuration (the   *)
(* server without a provider key: an admitted request ends 501).  The      *)
(* athlete leans forward (30 degrees) on every frame, frames 1500 or 8000  *)
(* ms apart; each request the client sends reaches POST /api/tts while it  *)
(* is in flight, and the answer comes back 500 ms after that or later.     *)
(***************************************************************************)
MaxEndToEndFrames == 5

EndToEndGaps == {1500, 8000}

ClientIp == "10.0.0.1"

EndToEndFrame ==
    /\ baselineHip # Null
    /\ frameNo < calibrateFrames + MaxEndToEndFrames
    /\ \E dt \in EndToEndGaps : DetectStep(TorsoKp, dt)
noProviderKey == 501

\* the request of call c reaches the server
ServerReceives ==
    \E c \in ttsCalls :
        /\ c.phase = "fetch"
        /\ Len(ttsServed) < c.id
        /\ ttsEndpoint(ClientIp, fetchLog[c.id].texts, now, noProviderKey)
        /\ UNCHANGED << envVars, poseVars, gateVars, ttsVars, evalInput, evalResult,
                        lastSettled, repEvents, loopVars, routineVars >>

\* the answer reaches speakTexts: the 429 branch, or `!resp.ok` (throw)
ClientReceives ==
    \E c \in ttsCalls, d \in TtsGaps :
        /\ c.phase = "fetch"
        /\ Len(ttsServed) >= c.id
        /\ LET answer == ttsServed[c.id] IN
           IF answer.status = 429
           THEN IF answer.retryAfter # Null
                THEN TtsRateLimitedHeader(c, Val(answer.retryAfter), d)
                ELSE TtsRateLimitedNoHeader(c, d)
           ELSE TtsFailed(c, d)

NextEndToEnd ==
    PersistRulesLoaded \/ RepCalibrate \/ EndToEndFrame \/ ServerReceives \/ ClientReceives

SpecEndToEnd == Init /\ [][NextEndToEnd]_vars

(***************************************************************************)
(* Input-quality scenarios.  The rules arrive with a minimum confidence of *)
(* 0.4 or of 0.7, or the fetch fails.  The athlete stands still for the 40 *)
(* calibration samples; the first and the last of them may come from a     *)
(* frame without shoulders, and one frame without a hip, knee or ankle may *)
(* fall before either.  Then up to MaxInputFrames frames 200 ms apart:     *)
(* hip row 480 or 204 tracked well (0.9), row 204 tracked at 0.65 or 0.3,  *)
(* row 204 without shoulders, or a frame without a hip, knee or ankle.     *)
(***************************************************************************)
MaxInputFrames == 6

StrictSpec == [SquatSpec EXCEPT !.minConf = 70]
InputSpecs == {SquatSpec, StrictSpec}

StandNoShoulderKp == NoShoulderKp(300, 90)
CalibOddFrames == {NoBodyKp, StandNoShoulderKp}
CalibOddSamples == {0, calibrateFrames - 1}

InputFrames ==
    {Kp(480, 90, 1000, 9000), Kp(204, 90, 1000, 9000), Kp(204, 65, 1000, 9000),
     Kp(204, 30, 1000, 9000), NoShoulderKp(204, 90), NoBodyKp}
InputGaps == {200}

InputRulesLoaded == \E spec \in InputSpecs : RulesLoaded(spec)

InputCalibrate ==
    /\ rulesFetch = "done"
    /\ baselineHip = Null
    /\ \/ DetectStep(StandKp, 200)
       \/ /\ Len(calibSamples) \in CalibOddSamples
          /\ frameNo <= Len(calibSamples)
          /\ \E kp \in CalibOddFrames : DetectStep(kp, 200)

InputFrame ==
    /\ baselineHip # Null
    /\ frameNo < calibrateFrames + 1 + MaxInputFrames
    /\ \E kp \in InputFrames, dt \in InputGaps : DetectStep(kp, dt)

NextInput == InputRulesLoaded \/ RulesFailed \/ InputCalibrate \/ InputFrame

SpecInput == Init /\ [][NextInput]_vars

(***************************************************************************)
(* Rule-evaluation scenarios: one call of an evaluator on a metrics bag    *)
(* and a rule document.  The bag has confidence 0.3 or 0.9, the hip on the *)
(* knee row or 200 px above it, torso lean 10 or 30 degrees, knee angle 65 *)
(* or 90 degrees.  The document has no minimum confidence (0) or 0.4, the  *)
(* squat message table, none, or one with an empty entry, and up to        *)
(* MaxRules rules: depth, torso and knee rules and one of a type the       *)
(* evaluators do not know, each with no severity, warn or fail, plus a     *)
(* knee rule configured pass and a torso rule with max_deg 0.              *)
(***************************************************************************)
MaxRules == 2

EvalConfidences == {30, 90}
EvalHipRows == {200, 400}
EvalTorsoAngles == {100, 300}
EvalKneeAngles == {650, 900}

EvalMetrics ==
    {[confidence |-> c, hipY |-> h * PxScale, kneeY |-> 400 * PxScale,
      torsoAngleDeg |-> t, kneeAngle |-> k] :
        c \in EvalConfidences, h \in EvalHipRows,
        t \in EvalTorsoAngles, k \in EvalKneeAngles}

EvalSeverities == {"none", "warn", "fail"}

EvalRules ==
    {Rule("depth", "ratio", 35, sev) : sev \in EvalSeverities}
    \cup {Rule("torso", "max", 250, sev) : sev \in EvalSeverities}
    \cup {Rule("knee", "min", 800, sev) : sev \in EvalSeverities}
    \cup {Rule("tempo", "duration", 20, sev) : sev \in EvalSeverities}
    \cup {Rule("knee", "min", 800, "pass"), Rule("torso", "max", 0, "fail")}

EvalRuleLists == UNION {[1..n -> EvalRules] : n \in 0..MaxRules}

EmptyEntryMessages == (<< "knee", "warn" >> :> "") @@ (<< "depth", "warn" >> :> "Go deeper")

EvalMessageTables == {EmptyMap, SquatMessages, EmptyEntryMessages}

EvalMinConfs == {0, 40}

EvalSpecs ==
    {[minConf |-> mc, rules |-> rs, messages |-> ms] :
        mc \in EvalMinConfs, rs \in EvalRuleLists, ms \in EvalMessageTables}

EvalInputs == {Some([metrics |-> m, spec |-> sp]) : m \in EvalMetrics, sp \in EvalSpecs}

InitRules ==
    /\ EnvInit /\ PoseInit /\ GateInit /\ TtsInit /\ LogInit /\ ServerInit
    /\ LoopInit /\ RoutineInit
    /\ evalInput \in EvalInputs
    /\ evalResult = Null

NextRules == Evaluate \/ ValidateRep

SpecRules == InitRules /\ [][NextRules]_vars

(***************************************************************************)
(* Properties of the rep counter.  A step is read from outside: the refs   *)
(* before it, and after it the frame's keypoints (latestKeypoints), its    *)
(* smoothed hip row (metrics.hipY) and the clock.                          *)
(***************************************************************************)
\* the step ran the rep detection of a frame (calibration is complete)
RepFrameDone ==
    /\ frameNo' = frameNo + 1
    /\ baselineHip' # Null
    /\ Val(latestKeypoints').complete

FrameHip == metrics'.hipY
FrameKnee == Val(latestKeypoints').kneeY * PxScale
FrameBase == Val(baselineHip')

\* hip >= b + 0.35 (k - b) and hip <= b + 0.10 (k - b), cleared of fractions
FrameAtDepth == 100 * FrameHip >= 65 * FrameBase + 35 * FrameKnee
FrameAtUp == 10 * FrameHip <= 9 * FrameBase + FrameKnee

\* the last 20 smoothed rows, this frame's included, span 24 px or more
FrameAmplitudeOK ==
    LET rows == hipHistory \o << FrameHip >>
        recent == {i \in 1..Len(rows) : i > Len(rows) - 20}
    IN \E i \in recent, j \in recent : rows[i] - rows[j] >= 24 * PxScale

FrameConfidenceOK == Val(latestKeypoints').score >= 60
FrameIntervalOK == now' - lastRepTs >= 1000
FrameGatesOK == FrameAmplitudeOK /\ FrameConfidenceOK

\* C1: the rep count never decreases and grows by exactly 1 at a time; it
\* grows only on a processed frame that passes the amplitude, confidence and
\* minimum-interval gates, with the machine Down when the rep is counted
\* (from an earlier frame, or entered on this one) and Up afterwards; and a
\* frame that passes the gates takes the machine from Down to Up only by
\* counting one rep.
C1_RepCountMonotone ==
    [][ /\ repCount' \in {repCount, repCount + 1}
        /\ repCount' = repCount + 1 =>
              /\ RepFrameDone
              /\ FrameAmplitudeOK /\ FrameConfidenceOK /\ FrameIntervalOK
              /\ downState \/ FrameAtDepth
              /\ FrameAtUp
              /\ ~downState'
        /\ (RepFrameDone /\ FrameGatesOK /\ downState /\ ~downState') =>
              repCount' = repCount + 1
        /\ (RepFrameDone /\ ~FrameGatesOK) => repCount' = repCount ]_vars

\* a rep has just been counted
C1_Witness == repCount = 1 /\ lastRepTs = now /\ ~downState /\ hipHistory = << >>

\* C2: while the smoothed hip row stays short of the up-threshold the rep
\* count does not move, however often the row crosses depthThreshold: every
\* change of the count is on a frame whose row is at or above (numerically at
\* most) the up-threshold.
C2_NoRepWithoutRise == [][ repCount' # repCount => (RepFrameDone /\ FrameAtUp) ]_vars

\* Down with no rep counted, after the row went below depthThreshold (335),
\* back above it and below it again without reaching the up-threshold (310)
C2_Witness ==
    /\ repCount = 0 /\ downState
    /\ baselineHip = Some(300 * PxScale)
    /\ \A i \in 1..Len(hipHistory) : i > 1 => hipHistory[i] > 310 * PxScale
    /\ \E i, j, k, l \in 1..Len(hipHistory) :
          /\ i < j /\ j < k /\ k < l
          /\ hipHistory[i] >= 335 * PxScale /\ hipHistory[j] < 335 * PxScale
          /\ hipHistory[k] >= 335 * PxScale /\ hipHistory[l] < 335 * PxScale

\* C3: with knee row k below the standing hip row b (k > b) and the amplitude
\* and confidence gates passing, a frame whose smoothed hip row is at least
\* b + 0.35 (k - b) puts the machine Down, the machine stays Down until the
\* row is at most b + 0.10 (k - b), and the first such frame 1000 ms or more
\* after the last counted rep adds exactly 1 to the rep count; so do the rows
\* 340 and then 308 for b = 300, k = 400.
C3_SquatCycle ==
    [][ (RepFrameDone /\ FrameKnee > FrameBase /\ FrameGatesOK) =>
          /\ (FrameAtDepth /\ ~FrameAtUp) => (downState' /\ repCount' = repCount)
          /\ (downState /\ ~FrameAtUp) => (downState' /\ repCount' = repCount)
          /\ (downState /\ FrameAtUp /\ FrameIntervalOK) =>
                (repCount' = repCount + 1 /\ ~downState' /\ lastRepTs' = now')
          /\ ( /\ FrameBase = 300 * PxScale /\ FrameKnee = 400 * PxScale
               /\ downState /\ \E i \in 1..Len(hipHistory) : hipHistory[i] = 340 * PxScale
               /\ FrameHip = 308 * PxScale /\ FrameIntervalOK ) =>
                repCount' = repCount + 1 ]_vars

\* b = 300, k = 400: the raw rows 420, 420, 204, 204 smooth to 320, 340, 324,
\* 308, and the frame at 308 has just counted the first rep
C3_Witness ==
    /\ baselineHip = Some(300 * PxScale)
    /\ latestKeypoints # Null /\ Val(latestKeypoints).kneeY = 400
    /\ smoothingWindow = << 300, 300, 420, 420, 204, 204 >>
    /\ metrics.hipY = 308 * PxScale /\ metrics.depthThreshold = 335 * PxScale
    /\ repCount = 1 /\ lastRepTs = now

\* C4 as stated: counted reps are at least 1000 ms apart, and a frame at or
\* past the up-threshold that comes sooner after the previous counted rep
\* counts nothing and leaves the machine Down (read here for the ordinary
\* geometry only, the knee below the standing hip).
C4_AsStated ==
    [][ /\ (repCount' = repCount + 1 /\ repCount > 0) => now' - lastRepTs >= 1000
        /\ ( /\ RepFrameDone /\ FrameKnee > FrameBase
             /\ repCount > 0 /\ downState /\ FrameAtUp /\ ~FrameIntervalOK ) =>
              (repCount' = repCount /\ downState') ]_vars

\* C4 amended: counted reps are at least 1000 ms apart; a frame at or past the
\* up-threshold that comes sooner after the previous counted rep counts
\* nothing, and leaves the machine Down when the frame passes the amplitude
\* and confidence gates (Up when it fails one of them).
C4_MinInterval ==
    [][ /\ (repCount' = repCount + 1 /\ repCount > 0) => now' - lastRepTs >= 1000
        /\ (RepFrameDone /\ repCount > 0 /\ downState /\ FrameAtUp /\ ~FrameIntervalOK) =>
              /\ repCount' = repCount
              /\ downState' = FrameGatesOK ]_vars

\* Down again 600 ms after the first rep with the row back at 302, at most the
\* up-threshold 310: the rep is held back and the machine is still Down
C4_Witness ==
    /\ repCount = 1 /\ downState
    /\ now - lastRepTs < 1000
    /\ baselineHip = Some(300 * PxScale)
    /\ latestKeypoints # Null /\ Val(latestKeypoints).kneeY = 400
    /\ metrics.hipY <= 310 * PxScale

(***************************************************************************)
(* Properties of the feedback gate.  speakLog is the sequence of the       *)
(* gate's speech requests (its calls of speakTexts).                       *)
(***************************************************************************)
\* the rule ids of the squat rule specs that can become issues
GateIssues == {"torso", "knee"}

SpeechFor(k) == SelectSeq(speakLog, LAMBDA e : e.issue = k)

\* the step ran the feedback gate on a frame
GateFrameDone == RepFrameDone /\ ruleSpec # Null

\* the step made the gate request speech for issue k
SpeechRequested(k) ==
    /\ Len(speakLog') = Len(speakLog) + 1
    /\ speakLog'[Len(speakLog')].issue = k
    /\ speakLog'[Len(speakLog')].ts = now'

\* C5: while a rule fails on every frame, the gate requests speech for an
\* issue at most 3 times, and successive requests for the same issue are at
\* least 8000 ms apart.
C5_RepeatCapAndCooldown ==
    \A k \in GateIssues :
        LET s == SpeechFor(k) IN
        /\ Len(s) <= 3
        /\ \A i \in 1..(Len(s) - 1) : s[i + 1].ts - s[i].ts >= 8000

\* the torso issue has been spoken three times, is the only issue of the
\* latest frame, has cooled down again, and is not spoken a fourth time
C5_Witness ==
    /\ Len(SpeechFor("torso")) = 3
    /\ metrics.issues = << "torso" >>
    /\ statusText.kind = "tip" /\ statusText.text = "Chest up"
    /\ now - SpeechFor("torso")[3].ts >= 8000
    /\ now - issueFirstSeen["torso"] >= 1500

\* C6: a zero-issue frame 5000 ms or more after the start of the current run
\* of zero-issue frames clears the per-issue bookkeeping; and an issue with
\* no spoken record left is requested again on the first frame where it is
\* the issue and 1500 ms have passed since it was first seen again, whatever
\* its count or cooldown before the reset.
C6_GoodFormReset ==
    [][ GateFrameDone =>
          /\ ( /\ metrics'.issues = << >>
               /\ goodFormSince # Null
               /\ now' - Val(goodFormSince) >= 5000 ) =>
                /\ issueFirstSeen' = EmptyMap
                /\ issueLastSpoken' = EmptyMap
                /\ issueSpokenCount' = EmptyMap
          /\ \A k \in GateIssues :
                ( /\ metrics'.issues = << k >>
                  /\ k \in DOMAIN issueFirstSeen
                  /\ now' - issueFirstSeen[k] >= 1500
                  /\ k \notin DOMAIN issueLastSpoken
                  /\ k \notin DOMAIN issueSpokenCount ) => SpeechRequested(k) ]_vars

\* the torso issue is requested a fourth time: it had reached the cap of 3,
\* the bookkeeping was cleared, and it recurred
C6_Witness ==
    /\ Len(SpeechFor("torso")) = 4
    /\ SpeechFor("torso")[4].ts = now
    /\ "torso" \in DOMAIN issueSpokenCount /\ issueSpokenCount["torso"] = 1

\* the torso issue is requested again less than 8000 ms after its last
\* request: the bookkeeping was cleared inside its cooldown
C6_InsideCooldown ==
    /\ Len(SpeechFor("torso")) = 2
    /\ SpeechFor("torso")[2].ts = now
    /\ now - SpeechFor("torso")[1].ts < 8000

\* C7: the gate requests speech for an issue only 1500 ms or more after the
\* first-seen time recorded for it; every issue of a frame without a
\* first-seen time gets this frame's time; and a recorded first-seen time
\* changes only when the whole bookkeeping is cleared.
C7_Patience ==
    [][ /\ \A k \in GateIssues :
              SpeechRequested(k) =>
                (k \in DOMAIN issueFirstSeen /\ now' - issueFirstSeen[k] >= 1500)
        /\ GateFrameDone =>
              \A i \in 1..Len(metrics'.issues) :
                  LET k == metrics'.issues[i] IN
                  /\ k \in DOMAIN issueFirstSeen'
                  /\ k \notin DOMAIN issueFirstSeen => issueFirstSeen'[k] = now'
        /\ \A k \in DOMAIN issueFirstSeen :
              \/ k \in DOMAIN issueFirstSeen' /\ issueFirstSeen'[k] = issueFirstSeen[k]
              \/ issueFirstSeen' = EmptyMap ]_vars

\* the knee issue, first seen on an earlier frame while the torso issue was
\* also present, has just been requested, 1500 ms or more after it was first
\* seen
C7_Witness ==
    /\ speakLog # << >>
    /\ speakLog[Len(speakLog)].issue = "knee"
    /\ speakLog[Len(speakLog)].ts = now
    /\ now - issueFirstSeen["knee"] >= 1500
    /\ issueFirstSeen["torso"] < issueFirstSeen["knee"]

\* severity of the issue rule k raises: r.severity ?? "warn"
IssueSeverity(k) ==
    LET rules == Val(ruleSpec).rules
        r == rules[CHOOSE i \in 1..Len(rules) : rules[i].id = k]
    IN IF r.severity = "none" THEN "warn" ELSE r.severity

\* the issue whose message the status text shows
ShownIssue ==
    CASE statusText.text = "Chest up" -> "torso"
      [] statusText.text = "Knees out" -> "knee"
      [] OTHER -> "none"

\* the latest frame had issues and went through the feedback gate
IssueFrameShown == ruleSpec # Null /\ baselineHip # Null /\ statusText.kind = "tip"

\* C8: on a frame with issues, the issue shown in the status text, and spoken
\* if the frame requests speech, is a fail-severity issue whenever the frame
\* has one, and among issues of equal severity the one declared first in the
\* rule spec: the frame's first fail-severity issue in declaration order, or
\* its first issue when none is a fail.
C8_PrimaryIssue ==
    IssueFrameShown =>
        LET fails == SelectSeq(metrics.issues, LAMBDA k : IssueSeverity(k) = "fail")
            expected == IF fails # << >> THEN fails[1] ELSE metrics.issues[1]
        IN /\ ShownIssue = expected
           /\ (speakLog # << >> /\ speakLog[Len(speakLog)].ts = now) =>
                 speakLog[Len(speakLog)].issue = expected

\* the part of C8 every modelled sort algorithm keeps: the issue shown is a
\* fail-severity issue whenever the frame has one
PrimaryIsFailWhenAny ==
    IssueFrameShown =>
        ((\E i \in 1..Len(metrics.issues) : IssueSeverity(metrics.issues[i]) = "fail")
            => IssueSeverity(ShownIssue) = "fail")

EvalM == Val(evalInput).metrics
EvalSpec == Val(evalInput).spec
EvalOut == Val(evalResult).out
ClientEvaluated == evalResult # Null /\ Val(evalResult).via = "client"

\* C11: when the confidence of the metrics is below the minimum confidence
\* of the rule document, applyExerciseRules returns valid = false with
\* exactly one result and exactly one issue, both with rule id "confidence"
\* and severity fail, whatever the other metrics and the declared rules are.
C11_LowConfidenceShortCircuit ==
    (ClientEvaluated /\ EvalM.confidence < EvalSpec.minConf) =>
        /\ EvalOut.valid = FALSE
        /\ Len(EvalOut.results) = 1
        /\ EvalOut.results[1].ruleId = "confidence"
        /\ EvalOut.results[1].severity = "fail"
        /\ Len(EvalOut.issues) = 1
        /\ EvalOut.issues[1].ruleId = "confidence"
        /\ EvalOut.issues[1].severity = "fail"

\* a low-confidence bag was evaluated against two declared rules, the first
\* of which its knee angle does not meet
C11_Witness ==
    /\ ClientEvaluated
    /\ EvalM.confidence < EvalSpec.minConf
    /\ Len(EvalSpec.rules) = 2
    /\ EvalSpec.rules[1].type = "min"
    /\ EvalM.kneeAngle < EvalSpec.rules[1].param
    /\ Len(EvalOut.results) = 1

\* the call ran the loop over the declared rules
RulesEvaluated == ClientEvaluated /\ EvalM.confidence >= EvalSpec.minConf

HasFailIssue == \E i \in 1..Len(EvalOut.issues) : EvalOut.issues[i].severity = "fail"

\* C12: what either evaluator returns has valid = false if and only if its
\* issue list holds at least one issue of severity fail; every result of
\* severity warn is listed as an issue, and a list of warn issues alone
\* leaves valid true.
C12_ValidIffNoFailIssue ==
    evalResult # Null =>
        /\ (EvalOut.valid = FALSE) <=> HasFailIssue
        /\ \A i \in 1..Len(EvalOut.results) :
               EvalOut.results[i].severity = "warn" =>
                   \E j \in 1..Len(EvalOut.issues) :
                       /\ EvalOut.issues[j].ruleId = EvalOut.results[i].ruleId
                       /\ EvalOut.issues[j].severity = "warn"

\* applyExerciseRules returned two warn issues and valid = true
C12_Witness ==
    /\ ClientEvaluated
    /\ Len(EvalOut.issues) = 2
    /\ \A i \in 1..2 : EvalOut.issues[i].severity = "warn"
    /\ EvalOut.valid = TRUE

\* the rule's threshold read against the bag, cleared of fractions: the depth
\* ratio is |hipY - kneeY| / max(1, |kneeY - hipY|), 0 when the two are equal
ThresholdMet(r, m) ==
    LET d == IF m.kneeY >= m.hipY THEN m.kneeY - m.hipY ELSE m.hipY - m.kneeY IN
    CASE r.type = "ratio" ->
             IF d = 0 THEN r.param <= 0
             ELSE IF d >= PxScale THEN r.param <= 100
             ELSE 100 * d >= r.param * PxScale
      [] r.type = "max" -> m.torsoAngleDeg <= r.param
      [] r.type = "min" -> m.kneeAngle >= r.param

GenericMessage(r, met) ==
    IF met THEN "ok"
    ELSE CASE r.type = "ratio" -> "Depth insufficient"
           [] r.type = "max" -> "Value exceeds max"
           [] r.type = "min" -> "Value below min"

ExpectedSeverity(r, met) ==
    IF met THEN "pass" ELSE IF r.severity = "none" THEN "warn" ELSE r.severity

RatioMaxMin == {"ratio", "max", "min"}

\* C13: a ratio, max or min rule that is evaluated and whose threshold is
\* not met gets its configured severity, or warn when it has none; one whose
\* threshold is met gets pass; its message is the entry of the message table
\* for (rule id, severity), or the generic default when there is no entry.
C13_SeverityAndMessage ==
    RulesEvaluated =>
        /\ Len(EvalOut.results) = Len(EvalSpec.rules)
        /\ \A i \in 1..Len(EvalSpec.rules) :
               LET r == EvalSpec.rules[i]
                   res == EvalOut.results[i]
                   met == ThresholdMet(r, EvalM)
                   sev == ExpectedSeverity(r, met)
               IN r.type \in RatioMaxMin =>
                      /\ res.ruleId = r.id
                      /\ res.ok = met
                      /\ res.severity = sev
                      /\ res.message =
                             IF << r.id, sev >> \in DOMAIN EvalSpec.messages
                             THEN EvalSpec.messages[<< r.id, sev >>]
                             ELSE GenericMessage(r, met)

\* a min rule with min_deg 80 and no severity, against a knee angle of 65
\* degrees and no message table, came out warn with "Value below min"; the
\* rule after it was met
C13_Witness ==
    /\ RulesEvaluated
    /\ EvalSpec.messages = EmptyMap
    /\ Len(EvalSpec.rules) = 2
    /\ EvalSpec.rules[1].type = "min"
    /\ EvalSpec.rules[1].param = 800
    /\ EvalSpec.rules[1].severity = "none"
    /\ EvalM.kneeAngle = 650
    /\ EvalOut.results[1].severity = "warn"
    /\ EvalOut.results[1].message = "Value below min"
    /\ EvalSpec.rules[2].type = "max"
    /\ EvalOut.results[2].severity = "pass"

\* C14: in a call that evaluates the declared rules, a rule of a type other
\* than ratio, max and min produces a pass result and no issue, valid is
\* false only if another rule produced a fail, and every rule declared after
\* it has its result.
C14_UnknownRulePasses ==
    RulesEvaluated =>
        \A i \in 1..Len(EvalSpec.rules) :
            EvalSpec.rules[i].type \notin RatioMaxMin =>
                /\ Len(EvalOut.results) = Len(EvalSpec.rules)
                /\ EvalOut.results[i].ruleId = EvalSpec.rules[i].id
                /\ EvalOut.results[i].ok
                /\ EvalOut.results[i].severity = "pass"
                /\ \A j \in 1..Len(EvalOut.issues) :
                       EvalOut.issues[j].ruleId # EvalSpec.rules[i].id
                /\ EvalOut.valid = FALSE =>
                       \E j \in 1..Len(EvalSpec.rules) :
                           /\ EvalSpec.rules[j].type \in RatioMaxMin
                           /\ EvalOut.results[j].severity = "fail"
                /\ \A j \in (i + 1)..Len(EvalSpec.rules) :
                       /\ EvalOut.results[j].ruleId = EvalSpec.rules[j].id
                       /\ EvalSpec.rules[j].type \in RatioMaxMin =>
                              EvalOut.results[j].ok = ThresholdMet(EvalSpec.rules[j], EvalM)

\* a rule of unknown type configured fail came first, the torso rule after
\* it was evaluated and not met, and valid stayed true
C14_Witness ==
    /\ RulesEvaluated
    /\ Len(EvalSpec.rules) = 2
    /\ EvalSpec.rules[1].type = "duration"
    /\ EvalSpec.rules[1].severity = "fail"
    /\ EvalSpec.rules[2].type = "max"
    /\ EvalOut.results[2].severity = "warn"
    /\ EvalOut.valid = TRUE

(***************************************************************************)
(* Properties of calibration and of frames with insufficient input.        *)
(***************************************************************************)
\* C15: the baseline is set when the 40th sample is collected; once it is
\* set, no step changes it and no step adds a calibration sample.
C15_BaselineFrozen ==
    /\ [](baselineHip # Null <=> Len(calibSamples) = calibrateFrames)
    /\ [](Len(calibSamples) <= calibrateFrames)
    /\ [][ baselineHip # Null =>
               /\ baselineHip' = baselineHip
               /\ calibSamples' = calibSamples ]_vars

\* three or more frames have been processed since calibration, the last of
\* them with the smoothed hip below the baseline row
C15_Witness ==
    /\ baselineHip # Null
    /\ frameNo >= calibrateFrames + 3
    /\ Val(latestKeypoints).complete
    /\ metrics.hipY > Val(baselineHip) + 24 * PxScale

\* the step processed a frame
FrameDone == frameNo' = frameNo + 1

\* a hip, knee or ankle keypoint is missing from the frame just processed
LowerBodyMissing == ~Val(latestKeypoints').complete

\* both shoulder keypoints are missing from it
ShoulderMissing ==
    Val(latestKeypoints').complete /\ Val(latestKeypoints').torsoAngle = NaN

\* the frame was dropped: the status asks for the full body and nothing of
\* the smoothing, calibration, rep and feedback state moved
FrameDropped ==
    /\ statusText'.kind = "waiting"
    /\ UNCHANGED << smoothingWindow, calibSamples, baselineHip, hipHistory, downState,
                    lastRepTs, repCount >>
    /\ UNCHANGED << lastTipText, issueFirstSeen, issueLastSpoken, issueSpokenCount,
                    goodFormSince, speakLog >>

\* C16: a frame from which a hip, knee, ankle or shoulder landmark is
\* missing yields no metrics: the status becomes "waiting for full body" and
\* the smoothing window, calibration samples, baseline, rep state, rep count
\* and feedback bookkeeping are unchanged.
C16_MissingLandmark ==
    [][ (FrameDone /\ (LowerBodyMissing \/ ShoulderMissing)) => FrameDropped ]_vars

\* the same for the hip, knee and ankle landmarks alone
C16_LowerBodyOnly == [][ (FrameDone /\ LowerBodyMissing) => FrameDropped ]_vars

\* the frame's confidence is below the minimum confidence of the loaded rules
BelowSpecConfidence ==
    /\ ruleSpec # Null
    /\ Val(latestKeypoints').complete
    /\ Val(latestKeypoints').score < Val(ruleSpec).minConf

\* a declared rule left its trace on the step: its id among the failed rule
\* ids of the metrics panel, or the good-form status
RuleEvaluated ==
    /\ ruleSpec # Null
    /\ metrics' # metrics \/ statusText' # statusText
    /\ \/ statusText'.kind = "good"
       \/ \E i \in 1..Len(metrics'.issues), j \in 1..Len(Val(ruleSpec).rules) :
              metrics'.issues[i] = Val(ruleSpec).rules[j].id

\* C17: on a frame with a required keypoint missing, or with confidence
\* below the minimum confidence of the rule spec, no rep is counted and no
\* form rule is evaluated.
C17_InsufficientInput ==
    [][ (FrameDone /\ (LowerBodyMissing \/ ShoulderMissing \/ BelowSpecConfidence)) =>
            /\ repCount' = repCount
            /\ ~RuleEvaluated ]_vars

\* the same for hip, knee and ankle landmarks and for rules whose minimum
\* confidence does not exceed the rep counter's own (coachConfig.repMinConfidence)
C17_WithinRepThreshold ==
    [][ (FrameDone /\ (\/ LowerBodyMissing
                       \/ BelowSpecConfidence /\ Val(ruleSpec).minConf <= repMinConfidence)) =>
            /\ repCount' = repCount
            /\ ~RuleEvaluated ]_vars

\* C20: every counted rep dispatches exactly one rep-complete event that
\* carries the new count, and nothing else dispatches one.
C20_RepAnnounced ==
    [][ /\ repCount' = repCount + 1 => repEvents' = Append(repEvents, [count |-> repCount'])
        /\ repCount' = repCount => repEvents' = repEvents ]_vars

(***************************************************************************)
(* Properties of the ends of speakTexts.  A step that ends a call is read  *)
(* from outside: what the call met (lastSettled), the clock and the two    *)
(* backoff refs after it.                                                  *)
(***************************************************************************)
CallSettled == lastSettled' # lastSettled

RateLimited == CallSettled /\ Val(lastSettled').cause = "rate-limited"

\* the delay the provider suggested, in ms: Retry-After when it is a positive
\* number, next_allowed_in_ms when there is no Retry-After header
SuggestedMs ==
    LET h == Val(lastSettled').hints IN
    IF h.header # Null /\ Val(h.header) > 0 THEN Some(1000 * Val(h.header))
    ELSE IF h.header = Null THEN h.body
    ELSE Null

\* the window the 429 opened for the phrase, from the moment it was handled
BackoffWindow == perPhraseNextAllowed'[Val(lastSettled').phraseKey] - now'

FallbackFrameDone == RepFrameDone /\ ruleSpec = Null

\* the ids the built-in checks report for the frame: the smoothed hip above
\* the depth threshold, the torso more than 30 degrees from vertical
ExpectedFallbackIds ==
    (IF 100 * FrameHip < 65 * FrameBase + 35 * FrameKnee THEN << "depth_ratio" >> ELSE << >>)
    \o (IF Val(latestKeypoints').torsoAngle > 3000 THEN << "torso_angle" >> ELSE << >>)

\* C21: with no rule spec (the fetch pending or failed) every complete
\* calibrated frame is processed: a rep is counted exactly when the gates
\* pass with the machine Down and the hip back above the up-threshold, and
\* the built-in depth and torso checks give the issue list and the status.
C21_FallbackRuns ==
    [][ FallbackFrameDone =>
            /\ repCount' = repCount + 1 <=>
                   /\ FrameGatesOK /\ FrameIntervalOK
                   /\ downState \/ FrameAtDepth
                   /\ FrameAtUp
            /\ repCount' \in {repCount, repCount + 1}
            /\ metrics'.issues = ExpectedFallbackIds
            /\ statusText'.kind = IF ExpectedFallbackIds = << >> THEN "good" ELSE "tip" ]_vars

\* the fetch has failed, a rep has been counted and the frame that counted
\* it leans forward with the hip above the depth threshold
C21_Witness ==
    /\ rulesFetch = "done"
    /\ ruleSpec = Null
    /\ repCount = 1
    /\ hipHistory = << >>
    /\ Len(metrics.issues) = 2
    /\ statusText.kind = "tip"

\* the step sent a TTS request
RequestSent == Len(fetchLog') = Len(fetchLog) + 1
SentTexts == fetchLog'[Len(fetchLog')].texts

\* C28: with no rule spec loaded, a speech request for the issues the
\* built-in checks report is sent only if the same issues were already
\* reported by the frame before (no request on the frame an issue appears,
\* which is inside any patience window), at least 8000 ms after the last
\* request for the same tips, and at most 3 times.
C28_FallbackThrottled ==
    [][ (FallbackFrameDone /\ RequestSent) =>
            /\ metrics.issues = metrics'.issues
            /\ \A i \in 1..Len(fetchLog) :
                   fetchLog[i].texts = SentTexts => now' - fetchLog[i].ts >= 8000
            /\ Cardinality({i \in 1..Len(fetchLog') : fetchLog'[i].texts = SentTexts}) <= 3 ]_vars

\* the step raised the spoken count of issue k by one and stamped its
\* last-spoken time
CountStamped(k) ==
    /\ GetOr(issueSpokenCount', k, 0) = GetOr(issueSpokenCount, k, 0) + 1
    /\ k \in DOMAIN issueLastSpoken' /\ issueLastSpoken'[k] = now'

FrameAmplitudeAbove ==
    LET rows == hipHistory \o << FrameHip >>
        recent == {i \in 1..Len(rows) : i > Len(rows) - 20}
    IN \E i \in recent, j \in recent : rows[i] - rows[j] > 24 * PxScale

\* the step took the machine into Down, or counted a rep
DownEnteredOrCounted == (~downState /\ downState') \/ repCount' = repCount + 1

\* C23 as stated: the machine enters Down, and a rep is counted, only on
\* frames where the range of the smoothed hip rows in the trailing window of
\* at most 20 frames is more than 24 px.
C23_AsStated == [][ DownEnteredOrCounted => (RepFrameDone /\ FrameAmplitudeAbove) ]_vars

\* C23 amended: the machine enters Down, and a rep is counted, only on
\* frames where the range of the smoothed hip rows in the trailing window of
\* at most 20 frames is 24 px or more.
C23_MinAmplitude == [][ DownEnteredOrCounted => (RepFrameDone /\ FrameAmplitudeOK) ]_vars

\* the machine is Down and the rows of the window (300, 320, 304, 324, 308)
\* span exactly 24 px
C23_Witness ==
    /\ downState /\ repCount = 0
    /\ hipHistory = << 300 * PxScale, 320 * PxScale, 304 * PxScale, 324 * PxScale, 308 * PxScale >>

\* the frame before this step was processed at or past depthThreshold (knee
\* below the standing hip) and left the machine Up: a gate refused or
\* cancelled Down at the bottom of a descent
BottomHeldUp ==
    /\ baselineHip # Null /\ ~downState
    /\ metrics.depthThreshold > Val(baselineHip)
    /\ metrics.hipY >= metrics.depthThreshold

FrameUpBelowDepth == 10 * (FrameKnee - FrameBase) < 35 * (FrameKnee - FrameBase)

\* C25: on every calibrated frame the up-threshold is strictly below
\* depthThreshold, and no single frame both enters Down and counts a rep.
C25_UpBelowDepth ==
    [][ RepFrameDone =>
          /\ FrameUpBelowDepth
          /\ ~(~downState /\ repCount' = repCount + 1) ]_vars

\* the mean of the recorded confidences of the window is above 0.6
WindowConfidenceAbove == SumSeq(windowConf') > 60 * Len(windowConf')

\* C26 as stated: a rep is counted only on a frame where the mean joint
\* confidence over the trailing window of at most 20 frames is more than 0.6.
C26_AsStated ==
    [][ repCount' = repCount + 1 =>
          (Len(windowConf') = Len(hipHistory) + 1 /\ WindowConfidenceAbove) ]_vars

\* C26 amended: a rep is counted only on a frame whose own mean joint
\* confidence is 0.6 or more, and the machine is Down after a processed frame
\* only if that frame's is; so every frame from the entry to Down to the
\* counted rep has a mean joint confidence of 0.6 or more.
C26_FrameConfidence ==
    [][ /\ repCount' = repCount + 1 => (RepFrameDone /\ FrameConfidenceOK)
        /\ (RepFrameDone /\ downState') => FrameConfidenceOK ]_vars

\* a rep has just been counted on a frame tracked at 0.65, with a window of
\* eight frames whose confidences (two of them 0.3) average less than 0.6
C26_Witness ==
    /\ repCount = 1 /\ lastRepTs = now
    /\ latestKeypoints # Null /\ Val(latestKeypoints).score = 65
    /\ Len(windowConf) = 8
    /\ SumSeq(windowConf) < 60 * Len(windowConf)

ReportedBefore(k) == \E i \in 1..Len(metrics.issues) : metrics.issues[i] = k

\* C29: an issue that was not reported by the previous evaluated frame starts
\* a fresh patience window on the frame that reports it again: the gate
\* requests no speech for it on that frame, nor for 1500 ms after it.
C29_FreshPatience ==
    [][ \A k \in GateIssues :
            (GateFrameDone /\ SpeechRequested(k)) => ReportedBefore(k) ]_vars

\* the step removed an entry of the per-issue bookkeeping
BookkeepingDropped ==
    \E k \in GateIssues :
        \/ k \in DOMAIN issueFirstSeen /\ k \notin DOMAIN issueFirstSeen'
        \/ k \in DOMAIN issueLastSpoken /\ k \notin DOMAIN issueLastSpoken'
        \/ k \in DOMAIN issueSpokenCount /\ k \notin DOMAIN issueSpokenCount'

\* C30: a frame that reports an issue cancels the good-form timer; the timer
\* is set only while the latest evaluated frame reported no issue, moves only
\* on an evaluated frame, and once set keeps its start until an issue frame
\* cancels it or the bookkeeping is cleared; and the bookkeeping is cleared
\* only on a zero-issue frame 5000 ms or more after the timer's start, that
\* is, after 5000 ms of evaluated frames without an issue.
C30_ClearedAfterGoodForm ==
    [][ /\ (GateFrameDone /\ metrics'.issues # << >>) => goodFormSince' = Null
        /\ goodFormSince' # Null => metrics'.issues = << >>
        /\ goodFormSince' # goodFormSince => GateFrameDone
        /\ (goodFormSince # Null /\ goodFormSince' # Null /\ goodFormSince' # goodFormSince) =>
              (now' - Val(goodFormSince) >= 5000 /\ goodFormSince' = Some(now'))
        /\ BookkeepingDropped =>
              /\ GateFrameDone /\ metrics'.issues = << >>
              /\ goodFormSince # Null /\ now' - Val(goodFormSince) >= 5000
              /\ issueFirstSeen' = EmptyMap /\ issueLastSpoken' = EmptyMap
              /\ issueSpokenCount' = EmptyMap ]_vars

\* the bookkeeping of an issue that had been spoken has just been cleared, on
\* a zero-issue frame that restarted the timer
C30_Witness ==
    /\ speakLog # << >>
    /\ metrics.issues = << >>
    /\ goodFormSince = Some(now)
    /\ issueFirstSeen = EmptyMap /\ issueLastSpoken = EmptyMap /\ issueSpokenCount = EmptyMap

\* C31: while fewer than 40 samples have been accepted there is no baseline,
\* no rep has been counted, the machine is Up, the gate window is empty, no
\* frame has been evaluated (the metrics panel holds its initial values, but
\* for the marker of a dropped frame) and no speech has been requested or
\* sent.
C31_NothingBeforeCalibration ==
    Len(calibSamples) < 40 =>
        /\ baselineHip = Null
        /\ repCount = 0 /\ ~downState /\ lastRepTs = 0 /\ hipHistory = << >>
        /\ metrics.hipY = 0 /\ metrics.depthThreshold = 0
        /\ (metrics.issues = << >> \/ metrics.issues = << "low_confidence" >>)
        /\ issueFirstSeen = EmptyMap /\ goodFormSince = Null
        /\ speakLog = << >> /\ fetchLog = << >>

\* 39 samples accepted with the rules loaded: the status still counts the
\* calibration and nothing else has happened
C31_Witness ==
    /\ Len(calibSamples) = 39
    /\ ruleSpec # Null
    /\ statusText.kind = "calibrating" /\ statusText.n = 39
    /\ repCount = 0 /\ speakLog = << >>

(***************************************************************************)
(* Properties of POST /api/tts, read from what it answered (ttsServed).    *)
(***************************************************************************)
\* the requests of one client address for one phrase that were admitted
AdmittedFor(ip, key) ==
    SelectSeq(ttsServed, LAMBDA e : e.admitted /\ e.ip = ip /\ e.texts # << "" >>
                                    /\ PhraseKey(e.texts) = key)

ServedPairs == {<< ttsServed[i].ip, PhraseKey(ttsServed[i].texts) >> : i \in 1..Len(ttsServed)}

\* C33: for each client address and phrase at most 3 requests are admitted,
\* any two admitted requests are 11000 ms or more apart, and every other
\* request with a text is answered 429 and leaves the record as it was; the
\* record counts the admitted requests and holds the time of the last one.
C33_PerPhraseLimit ==
    /\ [](\A p \in ServedPairs :
            LET a == AdmittedFor(p[1], p[2]) IN
            /\ Len(a) <= 3
            /\ \A i \in 1..(Len(a) - 1) : a[i + 1].ts - a[i].ts >= 11000
            /\ a # << >> => ( /\ p \in DOMAIN ttsByIpPhrase
                              /\ ttsByIpPhrase[p].count = Len(a)
                              /\ ttsByIpPhrase[p].lastTs = a[Len(a)].ts ))
    /\ [][ Len(ttsServed') = Len(ttsServed) + 1 =>
             LET e == ttsServed'[Len(ttsServed')] IN
             (e.texts # << "" >> /\ ~e.admitted) =>
                (e.status = 429 /\ ttsByIpPhrase' = ttsByIpPhrase) ]_vars

\* one address has had three requests for a phrase admitted, in either
\* spelling, and its fourth, 11000 ms after the third, was answered 429
C33_Witness ==
    /\ Len(ttsServed) = 4
    /\ \A i \in 1..4 : ttsServed[i].ip = "10.0.0.1" /\ ttsServed[i].texts # << "" >>
    /\ \A i \in 1..3 : ttsServed[i].admitted
    /\ ttsServed[2].texts # ttsServed[1].texts
    /\ ttsServed[4].status = 429 /\ ttsServed[4].ts - ttsServed[3].ts = 11000
    /\ ttsByIpPhrase[<< "10.0.0.1", << "chest up" >> >>].count = 3

\* the step is the server answering the client's latest request, and that
\* request was sent 8000 ms or more after every earlier request of the
\* client with the same message
CooledRequestAnswered ==
    /\ Len(ttsServed') = Len(ttsServed) + 1
    /\ Len(ttsServed') <= Len(fetchLog)
    /\ LET i == Len(ttsServed') IN
       \A j \in 1..(i - 1) :
           fetchLog[j].texts = fetchLog[i].texts => fetchLog[i].ts - fetchLog[j].ts >= 8000

\* C32: a request the gate sends for a message 8000 ms or more after its
\* previous request for the same message is not answered 429 by the server.
C32_NeverRejected ==
    [][ CooledRequestAnswered => ttsServed'[Len(ttsServed')].status # 429 ]_vars

(***************************************************************************)
(* The camera effect of CameraFeed and its detection loop: start() (camera, *)
(* video.play(), detector initialisation), the chain step -> setTimeout ->  *)
(* step, and the cleanup of the effect.  The component is mounted once and  *)
(* unmounted at most once; React detaches the element refs of an unmounted  *)
(* component before the effect's cleanup runs.  A timer that fires calls    *)
(* step at once; time passes while a pass awaits estimatePoses.  A pose has *)
(* the athlete standing, seen well (joint scores 0.9) or faintly (0.2), or  *)
(* lacks the lower body.                                                    *)
(***************************************************************************)
MaxLoopTimers == 6
LoopGaps == {150, 400}
FaintKp == Kp(300, 20, 1000, 9000)
LoopPoses == {StandKp, FaintKp, NoBodyKp}
PassOutcomes == {"pose", "none", "throw"}

BackendStatus == Status("init", "Initializing TensorFlow backend...", 0)
ModelLoadedStatus ==
    Status("init", "Model loaded. Calibrating baseline (please stand still)...", 0)
InitFailedStatus == Status("error", "Model init failed", 0)
CameraUnavailableStatus == Status("error", "Camera unavailable", 0)

\* a step that sets the timer of the next step however the video is
EagerSchedule(videoReady) == TRUE

\* step(), lines 534-537: with no frame to read, step sets the timer of the
\* next step itself and returns
SchedulesOnEntry(videoReady) == ~videoReady

\* detectIntervalRef.current = window.setTimeout(step, intervalMs), with
\* `timers` the timers still pending
setTimeoutStep(timers) ==
    /\ timerSeq' = timerSeq + 1
    /\ pendingTimers' = timers \cup {timerSeq + 1}
    /\ detectIntervalRef' = Some(timerSeq + 1)

\* step() up to the await of estimatePoses
step(videoReady, timers) ==
    /\ passesInFlight' = IF videoReady THEN passesInFlight + 1 ELSE passesInFlight
    /\ IF SchedulesOnEntry(videoReady)
       THEN setTimeoutStep(timers)
       ELSE /\ pendingTimers' = timers
            /\ UNCHANGED << detectIntervalRef, timerSeq >>

startDetectionLoop(videoReady) ==
    IF ~refsAttached
    THEN UNCHANGED << passesInFlight, pendingTimers, detectIntervalRef, timerSeq >>
    ELSE step(videoReady, pendingTimers)

stopDetectionLoop ==
    /\ IF detectIntervalRef # Null
       THEN /\ pendingTimers' = pendingTimers \ {Val(detectIntervalRef)}
            /\ detectIntervalRef' = Null
       ELSE UNCHANGED << pendingTimers, detectIntervalRef >>
    /\ detector' = IF detector = "live" THEN "disposed" ELSE detector

\* what start(), the timers and the cleanup leave alone
OutsideLoop ==
    /\ UNCHANGED << sortImpl, frameNo, ruleSpec, rulesFetch >>
    /\ UNCHANGED << lastTipText, issueFirstSeen, issueLastSpoken, issueSpokenCount,
                    goodFormSince, speakLog >>
    /\ UNCHANGED << poseVars, ttsVars, evalInput, evalResult, serverVars, routineVars,
                    lastSettled, repEvents >>

\* getUserMedia settled: rejected (catch), resolved after the cleanup
\* (`if (!mounted) return`), or resolved while mounted (video.play() awaited)
CameraSettled(granted) ==
    /\ startPhase = "camera"
    /\ startPhase' = IF ~granted THEN "failed"
                     ELSE IF ~mounted \/ ~refsAttached THEN "returned" ELSE "play"
    /\ statusText' = IF granted THEN statusText ELSE CameraUnavailableStatus
    /\ UNCHANGED << now, mounted, refsAttached, detector, passesInFlight, pendingTimers,
                    detectIntervalRef, timerSeq >>
    /\ OutsideLoop

\* video.play() resolved: initDetectorAndLoop runs up to its first await
VideoPlaying ==
    /\ startPhase = "play"
    /\ startPhase' = "init"
    /\ statusText' = BackendStatus
    /\ UNCHANGED << now, mounted, refsAttached, detector, passesInFlight, pendingTimers,
                    detectIntervalRef, timerSeq >>
    /\ OutsideLoop

\* createDetector resolved: detectorRef is set and startDetectionLoop called
DetectorCreated(videoReady) ==
    /\ startPhase = "init"
    /\ startPhase' = "started"
    /\ detector' = "live"
    /\ statusText' = ModelLoadedStatus
    /\ startDetectionLoop(videoReady)
    /\ UNCHANGED << now, mounted, refsAttached >>
    /\ OutsideLoop

\* an import, the backend or createDetector rejected
InitFailed ==
    /\ startPhase = "init"
    /\ startPhase' = "failed"
    /\ statusText' = InitFailedStatus
    /\ UNCHANGED << now, mounted, refsAttached, detector, passesInFlight, pendingTimers,
                    detectIntervalRef, timerSeq >>
    /\ OutsideLoop

\* a pending timer fires: step()
TimerFires(id, videoReady) ==
    /\ id \in pendingTimers
    /\ timerSeq < MaxLoopTimers
    /\ step(videoReady, pendingTimers \ {id})
    /\ UNCHANGED << now, mounted, refsAttached, startPhase, detector, statusText >>
    /\ OutsideLoop

\* estimatePoses settled dt after the last event: a pose is drawn and
\* handed to processPoseMetrics, or there is none, or the pass threw (catch);
\* `finally` sets the timer of the next step
PassSettled(outcome, kp, dt) ==
    /\ passesInFlight > 0
    /\ timerSeq < MaxLoopTimers
    /\ passesInFlight' = passesInFlight - 1
    /\ setTimeoutStep(pendingTimers)
    /\ UNCHANGED << mounted, refsAttached, startPhase, detector >>
    /\ IF outcome = "pose"
       THEN DetectFrame(kp, dt) /\ UNCHANGED windowConf
       ELSE /\ now' = now + dt
            /\ UNCHANGED statusText
            /\ OutsideLoop

\* the cleanup of the effect, at unmount
Cleanup ==
    /\ mounted
    /\ mounted' = FALSE
    /\ refsAttached' = FALSE
    /\ stopDetectionLoop
    /\ UNCHANGED << now, startPhase, passesInFlight, timerSeq, statusText >>
    /\ OutsideLoop

NextLoop ==
    \/ \E granted \in BOOLEAN : CameraSettled(granted)
    \/ VideoPlaying
    \/ \E videoReady \in BOOLEAN : DetectorCreated(videoReady)
    \/ InitFailed
    \/ \E id \in pendingTimers, videoReady \in BOOLEAN : TimerFires(id, videoReady)
    \/ \E outcome \in PassOutcomes, kp \in LoopPoses, dt \in LoopGaps :
          PassSettled(outcome, kp, dt)
    \/ Cleanup

SpecLoop == Init /\ [][NextLoop]_vars

\* C34: at most one pass is in progress and at most one timer is pending,
\* never both at once; a timer is set only by a step that starts no pass or
\* by a pass that has ended, and every pass that ends, thrown or not, sets
\* exactly one.
C34_OnePassOneTimer ==
    /\ [](passesInFlight + Cardinality(pendingTimers) <= 1)
    /\ [][ /\ timerSeq' # timerSeq => (timerSeq' = timerSeq + 1 /\ passesInFlight' = 0)
           /\ passesInFlight' < passesInFlight =>
                 (timerSeq' = timerSeq + 1 /\ (timerSeq + 1) \in pendingTimers') ]_vars

\* the loop has gone round: a third timer is pending after passes ended
C34_Witness ==
    /\ timerSeq >= 3
    /\ pendingTimers = {timerSeq}
    /\ passesInFlight = 0
    /\ frameNo >= 1
    /\ mounted

\* drawKeypoints, line 588: a keypoint scored below 0.3 is not drawn
minDrawnScore == 30

\* the step is a frame whose hip, knee and ankle are all there and whose
\* joint scores are, on average, below 0.3
FaintFrame ==
    /\ frameNo' = frameNo + 1
    /\ Val(latestKeypoints').complete
    /\ Val(latestKeypoints').score < minDrawnScore

\* C37: a frame whose joints are scored below 0.3 is treated like a frame
\* with the joints missing: nothing is smoothed, sampled for the baseline
\* or fed to the rep counter.
C37_FaintJointsUnused ==
    [][ FaintFrame => UNCHANGED << smoothingWindow, calibSamples, baselineHip, hipHistory,
                                   downState, repCount >> ]_vars

\* C35: once the cleanup has run, no pass starts and no timer is set.
C35_NothingAfterCleanup ==
    [][ ~mounted => (timerSeq' = timerSeq /\ passesInFlight' <= passesInFlight) ]_vars

(***************************************************************************)
(* RoutineRunner with a plan loaded: today's exercises have 3, 1 and 2     *)
(* sets and rest 2 seconds between sets.  The handlers are those of the    *)
(* HUD buttons, of the routine list, of the rest interval (one tick per    *)
(* second) and of the "rep-complete" listener.                             *)
(***************************************************************************)
MaxEventCount == 2
TodaySets == << 3, 1, 2 >>
RestSeconds == 2
currentSets == TodaySets[exerciseIndex + 1]

\* what RoutineRunner never touches
OutsideRoutine ==
    UNCHANGED << envVars, poseVars, gateVars, ttsVars, evalInput, evalResult, serverVars,
                 loopVars, lastSettled, repEvents >>

\* nextExercise / skipExercise: the alert aside, the same assignments
nextExercise ==
    /\ liveReps' = 0
    /\ setIndex' = 0
    /\ exerciseIndex' = IF exerciseIndex + 1 < Len(TodaySets)
                        THEN exerciseIndex + 1 ELSE exerciseIndex

\* "Finish Set", enabled while not resting
finishSet ==
    /\ ~isResting
    /\ IF setIndex + 1 < currentSets
       THEN /\ isResting' = TRUE
            /\ restLeft' = RestSeconds
            /\ restTimerRef' = Some(setIndex + 1)
            /\ UNCHANGED << exerciseIndex, setIndex, liveReps >>
       ELSE /\ nextExercise
            /\ UNCHANGED << isResting, restLeft, restTimerRef >>
    /\ OutsideRoutine

NextExerciseClicked ==
    /\ nextExercise
    /\ UNCHANGED << isResting, restLeft, restTimerRef >>
    /\ OutsideRoutine

skipExercise ==
    /\ nextExercise
    /\ UNCHANGED << isResting, restLeft, restTimerRef >>
    /\ OutsideRoutine

\* a click on item i of the routine list
SelectExercise(i) ==
    /\ exerciseIndex' = i
    /\ setIndex' = 0
    /\ liveReps' = 0
    /\ UNCHANGED << isResting, restLeft, restTimerRef >>
    /\ OutsideRoutine

\* the interval callback of finishSet, with nextSet as captured
RestTick ==
    /\ restTimerRef # Null
    /\ IF restLeft <= 1
       THEN /\ restTimerRef' = Null
            /\ isResting' = FALSE
            /\ setIndex' = Val(restTimerRef)
            /\ liveReps' = 0
            /\ restLeft' = 0
       ELSE /\ restLeft' = restLeft - 1
            /\ UNCHANGED << restTimerRef, isResting, setIndex, liveReps >>
    /\ UNCHANGED exerciseIndex
    /\ OutsideRoutine

\* onRep: the event's count when it is a number, else liveReps + 1 with
\* liveReps as the listener captured it at mount (0)
onRep(detail) ==
    /\ liveReps' = IF detail # Null THEN Val(detail) ELSE 0 + 1
    /\ UNCHANGED << exerciseIndex, setIndex, isResting, restLeft, restTimerRef >>
    /\ OutsideRoutine

NextRoutine ==
    \/ finishSet
    \/ NextExerciseClicked
    \/ skipExercise
    \/ \E i \in 0..(Len(TodaySets) - 1) : SelectExercise(i)
    \/ RestTick
    \/ \E n \in 1..MaxEventCount : onRep(Some(n))
    \/ onRep(Null)

SpecRoutine == Init /\ [][NextRoutine]_vars

\* C36: the set index is less than the number of sets of the current
\* exercise.
C36_SetIndexInRange == setIndex < currentSets

(***************************************************************************)
(* The baseline computation called on its own, on calibrateFrames samples  *)
(* of three values (rows 290, 300 and 310) in several proportions, each    *)
(* laid out in many orders: sample k of a layout is entry                  *)
(* (k * stride + shift) mod calibrateFrames of the ascending list.         *)
(***************************************************************************)
MaxMedianShift == 7
MedianStrides == {1, 3, 7}
MedianLow == 290 * PxScale
MedianMid == 300 * PxScale
MedianHigh == 310 * PxScale
\* << samples of the low row, samples of the middle row >>
MedianCounts ==
    {<< 20, 1 >>, << 19, 1 >>, << 21, 1 >>, << 20, 0 >>, << 21, 0 >>, << 10, 20 >>}

Ascending(counts) ==
    [k \in 1..calibrateFrames |->
        IF k <= counts[1] THEN MedianLow
        ELSE IF k <= counts[1] + counts[2] THEN MedianMid ELSE MedianHigh]

Layout(sorted, stride, shift) ==
    [k \in 1..calibrateFrames |-> sorted[((k * stride + shift) % calibrateFrames) + 1]]

MedianInputs ==
    {Some([samples |-> Layout(Ascending(c), stride, shift)]) :
        c \in MedianCounts, stride \in MedianStrides, shift \in 0..MaxMedianShift}

InitMedian ==
    /\ EnvInit /\ PoseInit /\ GateInit /\ TtsInit /\ LogInit /\ ServerInit
    /\ LoopInit /\ RoutineInit
    /\ evalInput \in MedianInputs
    /\ evalResult = Null

\* lines 793-795 on the samples: no baseline yet, so it is computed
ComputeBaseline == EvalDone("baseline", NextBaseline(Val(evalInput).samples))

SpecMedian == InitMedian /\ [][ComputeBaseline]_vars

\* how many of the samples satisfy a test
CountSamples(samples, Test(_)) ==
    Cardinality({k \in 1..Len(samples) : Test(samples[k])})

\* C38: the baseline is one of the samples, with at most half of the
\* samples below it and more than half of them at or below it.  This fixes
\* the baseline by the values alone, so every order of the same values
\* gives the same baseline (the reversed order is computed alongside).
C38_MedianOfSamples ==
    evalResult # Null =>
        LET samples == Val(evalInput).samples
            out == Val(evalResult).out
            half == Len(samples) \div 2
        IN /\ Len(samples) = 40
           /\ out # Null
           /\ \E k \in 1..Len(samples) : samples[k] = Val(out)
           /\ CountSamples(samples, LAMBDA x : x < Val(out)) <= half
           /\ CountSamples(samples, LAMBDA x : x <= Val(out)) > half
           /\ NextBaseline(Reverse(samples)) = out

\* the baseline of an unsorted layout of 20 low, 1 middle and 19 high
\* samples is the middle row, which is not the sample in the middle
C38_Witness ==
    /\ evalResult # Null
    /\ Val(evalResult).out = Some(MedianMid)
    /\ LET samples == Val(evalInput).samples IN
       /\ samples[(Len(samples) \div 2) + 1] # MedianMid
       /\ \E k \in 1..(Len(samples) - 1) : samples[k] > samples[k + 1]

(***************************************************************************)
(* The smoother on its own (lines 786-788), with the arithmetic of the     *)
(* engine: a Number is a binary floating-point value, and every sum and    *)
(* quotient is rounded to the nearest value, ties to the even mantissa.    *)
(* The mantissa is cut from 53 bits to MantissaBits.  Values are written   *)
(* in units of half the spacing of the pushed rows, so that every value    *)
(* met is a whole number.  The pushed rows are 16, 20 and 28; the mean     *)
(* goes where line 792 puts it during calibration, onto calibSamples.      *)
(***************************************************************************)
MantissaBits == 4
MaxSmoothPushes == 7
SmoothRows == {16, 20, 28}

RECURSIVE BitLen(_)
BitLen(x) == IF x = 0 THEN 0 ELSE 1 + BitLen(x \div 2)

RECURSIVE Pow2(_)
Pow2(e) == IF e = 0 THEN 1 ELSE 2 * Pow2(e - 1)

\* the spacing of the floating-point values around x
Ulp(x) == Pow2(Max2(0, BitLen(x) - MantissaBits))

\* the multiple of grid nearest to num / den, a tie going to the even one
RoundHalfEven(num, den, grid) ==
    LET d == den * grid
        q == num \div d
        r == num % d
    IN (IF 2 * r > d \/ (2 * r = d /\ q % 2 = 1) THEN q + 1 ELSE q) * grid

\* a + b
FlAdd(a, b) == RoundHalfEven(a + b, 1, Ulp(a + b))

\* x / n
FlDiv(x, n) == RoundHalfEven(x, n, Ulp(x \div n))

\* reduce((a, b) => a + b, 0)
RECURSIVE FlSum(_, _)
FlSum(acc, s) == IF s = << >> THEN acc ELSE FlSum(FlAdd(acc, Head(s)), Tail(s))

\* smoothingWindow.current.reduce((a, b) => a + b, 0) / smoothingWindow.current.length
FlMean(window) == FlDiv(FlSum(0, window), Len(window))

\* push, shift when longer than 6, mean; the mean is pushed to calibSamples
SmoothPush(v) ==
    /\ Len(calibSamples) < MaxSmoothPushes
    /\ smoothingWindow' = PushCapped(smoothingWindow, v, smoothingCap)
    /\ calibSamples' = Append(calibSamples, FlMean(smoothingWindow'))
    /\ UNCHANGED << latestKeypoints, baselineHip, hipHistory, windowConf, downState,
                    lastRepTs, repCount, metrics >>
    /\ UNCHANGED << envVars, gateVars, ttsVars, evalVars, lastSettled, repEvents >>

NextSmooth == \E v \in SmoothRows : SmoothPush(v)

SpecSmooth == Init /\ [][NextSmooth]_vars

\* every value in the window is the same
ConstantWindow ==
    /\ smoothingWindow # << >>
    /\ \A i \in 1..Len(smoothingWindow) : smoothingWindow[i] = smoothingWindow[1]

\* the value the smoother returned last
LastMean == calibSamples[Len(calibSamples)]

RatioKneeRow == 400 * PxScale
RatioHipOffsets ==
    {0, PxScale \div 2, PxScale, 2 * PxScale, 150 * PxScale, 399 * PxScale, 0 - PxScale}
RatioParams == {0, 35, 100, 150}
RatioSeverities == {"none", "fail"}
RatioMessageTables == {EmptyMap, SquatMessages}

RatioInputs ==
    {Some([metrics |-> [confidence |-> 90, hipY |-> RatioKneeRow - off,
                        kneeY |-> RatioKneeRow, torsoAngleDeg |-> 100, kneeAngle |-> 900],
           spec |-> [minConf |-> 40, rules |-> << Rule("depth", "ratio", p, sev) >>,
                     messages |-> ms]]) :
        off \in RatioHipOffsets, p \in RatioParams, sev \in RatioSeverities,
        ms \in RatioMessageTables}

InitRatio ==
    /\ EnvInit /\ PoseInit /\ GateInit /\ TtsInit /\ LogInit /\ ServerInit
    /\ LoopInit /\ RoutineInit
    /\ evalInput \in RatioInputs
    /\ evalResult = Null

SpecRatio == InitRatio /\ [][NextRules]_vars

\* the distance between the hip row and the knee row of the bag
HipKneeDistance == Abs(EvalM.kneeY - EvalM.hipY)

====
